---- MODULE Spec2Model ----
(***************************************************************************)
(* Model of the GLR importer (io_import_glr): the header check, the        *)
(* per-triangle decode loop of GlrImporter.do_tris with its CRC filter and *)
(* material-key table, the material creation that follows the loop, and    *)
(* the pure decoders of utils.py.                                          *)
(*                                                                         *)
(* Representation.  A 64-bit or 32-bit register (combiner mux, other mode, *)
(* geometry mode) is the set of the positions of its 1 bits, so that       *)
(* (reg >> s) & m is computed bit by bit with no integer overflow.  Floats *)
(* of the file are small integers (only copies, one negation and tests     *)
(* against zero are applied to them).  Texture CRCs are naturals: they are *)
(* only compared.                                                          *)
(***************************************************************************)
EXTENDS Integers, Sequences, FiniteSets, TLC

\* Largest triangle count a header declares in the checked files.
MaxTris == 3

\* Python's None, where a tuple, a record or a number is expected otherwise.
None == << >>

\* No exception raised.
NoError == ""

-----------------------------------------------------------------------------
(* Bit fields *)

RECURSIVE ShiftAndFrom(_, _, _, _)
ShiftAndFrom(reg, shift, mask, k) ==
    IF mask \div (2 ^ k) = 0
    THEN 0
    ELSE (IF (mask \div (2 ^ k)) % 2 = 1 /\ (shift + k) \in reg THEN 2 ^ k ELSE 0)
         + ShiftAndFrom(reg, shift, mask, k + 1)

\* (reg >> shift) & mask
ShiftAnd(reg, shift, mask) == ShiftAndFrom(reg, shift, mask, 0)

\* Mutation of Get: a missing key raises as dict[key] does.
Get_NoDefault(table, key, default) ==
    IF key \in DOMAIN table THEN table[key] ELSE "KeyError"

\* dict[key] and dict.get(key, default)
Lookup(table, key) == IF key \in DOMAIN table THEN table[key] ELSE "KeyError"
Get(table, key, default) == IF key \in DOMAIN table THEN table[key] ELSE default

-----------------------------------------------------------------------------
(* utils.py: combiner mux *)

RGB_A_TABLE ==
    0 :> "Combined Color" @@ 1 :> "Texel 0 Color" @@ 2 :> "Texel 1 Color" @@
    3 :> "Primitive Color" @@ 4 :> "Shade Color" @@ 5 :> "Env Color" @@
    6 :> "1" @@ 7 :> "Noise"

RGB_B_TABLE ==
    0 :> "Combined Color" @@ 1 :> "Texel 0 Color" @@ 2 :> "Texel 1 Color" @@
    3 :> "Primitive Color" @@ 4 :> "Shade Color" @@ 5 :> "Env Color" @@
    6 :> "Key Center" @@ 7 :> "Convert K4"

RGB_C_TABLE ==
    0 :> "Combined Color" @@ 1 :> "Texel 0 Color" @@ 2 :> "Texel 1 Color" @@
    3 :> "Primitive Color" @@ 4 :> "Shade Color" @@ 5 :> "Env Color" @@
    6 :> "Key Scale" @@ 7 :> "Combined Alpha" @@ 8 :> "Texel 0 Alpha" @@
    9 :> "Texel 1 Alpha" @@ 10 :> "Primitive Alpha" @@ 11 :> "Shade Alpha" @@
    12 :> "Env Alpha" @@ 13 :> "LOD Fraction" @@
    14 :> "Primitive LOD Fraction" @@ 15 :> "Convert K5"

RGB_D_TABLE ==
    0 :> "Combined Color" @@ 1 :> "Texel 0 Color" @@ 2 :> "Texel 1 Color" @@
    3 :> "Primitive Color" @@ 4 :> "Shade Color" @@ 5 :> "Env Color" @@
    6 :> "1" @@ 7 :> "0"

ALPHA_ABD_TABLE ==
    0 :> "Combined Alpha" @@ 1 :> "Texel 0 Alpha" @@ 2 :> "Texel 1 Alpha" @@
    3 :> "Primitive Alpha" @@ 4 :> "Shade Alpha" @@ 5 :> "Env Alpha" @@
    6 :> "1" @@ 7 :> "0"

ALPHA_C_TABLE ==
    0 :> "LOD Fraction" @@ 1 :> "Texel 0 Alpha" @@ 2 :> "Texel 1 Alpha" @@
    3 :> "Primitive Alpha" @@ 4 :> "Shade Alpha" @@ 5 :> "Env Alpha" @@
    6 :> "Primitive LOD Fraction" @@ 7 :> "0"

decode_rgb_combiner_abcd(a, b, c, d) ==
    << Get(RGB_A_TABLE, a, "0"), Get(RGB_B_TABLE, b, "0"),
       Get(RGB_C_TABLE, c, "0"), Get(RGB_D_TABLE, d, "0") >>

decode_alpha_combiner_abcd(a, b, c, d) ==
    << Lookup(ALPHA_ABD_TABLE, a), Lookup(ALPHA_ABD_TABLE, b),
       Lookup(ALPHA_C_TABLE, c), Lookup(ALPHA_ABD_TABLE, d) >>

\* Mutation of CombinerFields: c_rgb1 is masked with 0xF, one bit short.
CombinerFields_NarrowC(mux) ==
    [ a_rgb1 |-> ShiftAnd(mux, 52, 15),
      c_rgb1 |-> ShiftAnd(mux, 47, 15),
      a_a1   |-> ShiftAnd(mux, 44, 7),
      c_a1   |-> ShiftAnd(mux, 41, 7),
      a_rgb2 |-> ShiftAnd(mux, 37, 15),
      c_rgb2 |-> ShiftAnd(mux, 32, 31),
      b_rgb1 |-> ShiftAnd(mux, 28, 15),
      b_rgb2 |-> ShiftAnd(mux, 24, 15),
      a_a2   |-> ShiftAnd(mux, 21, 7),
      c_a2   |-> ShiftAnd(mux, 18, 7),
      d_rgb1 |-> ShiftAnd(mux, 15, 7),
      b_a1   |-> ShiftAnd(mux, 12, 7),
      d_a1   |-> ShiftAnd(mux, 9, 7),
      d_rgb2 |-> ShiftAnd(mux, 6, 7),
      b_a2   |-> ShiftAnd(mux, 3, 7),
      d_a2   |-> ShiftAnd(mux, 0, 7) ]

\* The 16 sub-fields of the mux, as decode_combiner_mode extracts them.
CombinerFields(mux) ==
    [ a_rgb1 |-> ShiftAnd(mux, 52, 15),
      c_rgb1 |-> ShiftAnd(mux, 47, 31),
      a_a1   |-> ShiftAnd(mux, 44, 7),
      c_a1   |-> ShiftAnd(mux, 41, 7),
      a_rgb2 |-> ShiftAnd(mux, 37, 15),
      c_rgb2 |-> ShiftAnd(mux, 32, 31),
      b_rgb1 |-> ShiftAnd(mux, 28, 15),
      b_rgb2 |-> ShiftAnd(mux, 24, 15),
      a_a2   |-> ShiftAnd(mux, 21, 7),
      c_a2   |-> ShiftAnd(mux, 18, 7),
      d_rgb1 |-> ShiftAnd(mux, 15, 7),
      b_a1   |-> ShiftAnd(mux, 12, 7),
      d_a1   |-> ShiftAnd(mux, 9, 7),
      d_rgb2 |-> ShiftAnd(mux, 6, 7),
      b_a2   |-> ShiftAnd(mux, 3, 7),
      d_a2   |-> ShiftAnd(mux, 0, 7) ]

\* The names of the 16 sub-fields: <<(*rgb1, *alpha1), (*rgb2, *alpha2)>>.
CombinerNames(f) ==
    << decode_rgb_combiner_abcd(f.a_rgb1, f.b_rgb1, f.c_rgb1, f.d_rgb1)
       \o decode_alpha_combiner_abcd(f.a_a1, f.b_a1, f.c_a1, f.d_a1),
       decode_rgb_combiner_abcd(f.a_rgb2, f.b_rgb2, f.c_rgb2, f.d_rgb2)
       \o decode_alpha_combiner_abcd(f.a_a2, f.b_a2, f.c_a2, f.d_a2) >>

decode_combiner_mode(mux) == CombinerNames(CombinerFields(mux))

-----------------------------------------------------------------------------
(* utils.py: blender mux, texture state, culling *)

BLENDER_PM_TABLE ==
    0 :> "Combined Color" @@ 1 :> "Framebuffer Color" @@ 2 :> "Blend Color" @@
    3 :> "Fog Color"

BLENDER_A_TABLE ==
    0 :> "Combined Alpha" @@ 1 :> "Fog Alpha" @@ 2 :> "Shade Alpha" @@ 3 :> "0"

BLENDER_B_TABLE ==
    0 :> "One Minus A" @@ 1 :> "Framebuffer Alpha" @@ 2 :> "1" @@ 3 :> "0"

decode_blender_pamb(p, a, m, b) ==
    << Lookup(BLENDER_PM_TABLE, p), Lookup(BLENDER_A_TABLE, a),
       Lookup(BLENDER_PM_TABLE, m), Lookup(BLENDER_B_TABLE, b) >>

\* The 8 sub-fields of other_mode, as decode_blender_mode extracts them.
BlenderFields(other_mode) ==
    [ b_2 |-> ShiftAnd(other_mode, 16, 3),
      b_1 |-> ShiftAnd(other_mode, 18, 3),
      m_2 |-> ShiftAnd(other_mode, 20, 3),
      m_1 |-> ShiftAnd(other_mode, 22, 3),
      a_2 |-> ShiftAnd(other_mode, 24, 3),
      a_1 |-> ShiftAnd(other_mode, 26, 3),
      p_2 |-> ShiftAnd(other_mode, 28, 3),
      p_1 |-> ShiftAnd(other_mode, 30, 3) ]

\* <<pamb1, pamb2>>
BlenderNames(f) ==
    << decode_blender_pamb(f.p_1, f.a_1, f.m_1, f.b_1),
       decode_blender_pamb(f.p_2, f.a_2, f.m_2, f.b_2) >>

decode_blender_mode(other_mode) == BlenderNames(BlenderFields(other_mode))

get_texture_filter(other_mode) ==
    IF ShiftAnd(other_mode, 44, 3) = 0 THEN "Closest" ELSE "Linear"

get_texture_wrap_mode(wrap) ==
    IF wrap = 0 THEN "Repeat" ELSE IF wrap = 1 THEN "Mirror" ELSE "Clamp"

\* Mutation of CullingMask: the mask is 0x2000 for every microcode.
CullingMask_NoShift(ucode) == 8192

\* 0x2000, shifted right by 3 for the F3DEX2 family of microcodes.
CullingMask(ucode) ==
    IF ucode \in {2, 5, 7, 13, 17, 18, 21} THEN 8192 \div (2 ^ 3) ELSE 8192

get_backface_culling(geometry_mode, ucode) ==
    ShiftAnd(geometry_mode, 0, CullingMask(ucode)) # 0

-----------------------------------------------------------------------------
(* import_glr.py: GlrImporter.create_material *)

\* Mutation of two_cycle_mode: every cycle type but 0 counts as two-cycle.
two_cycle_mode_NonZero(other_mode) == ShiftAnd(other_mode, 52, 3) # 0

\* cycle_type = (other_mode >> 52) & 0x3; 0 = 1CYCLE, 1 = 2CYCLE
two_cycle_mode(other_mode) == ShiftAnd(other_mode, 52, 3) = 1

\* geometry_mode & 0x10000
fog_bit(geometry_mode) == ShiftAnd(geometry_mode, 0, 65536) # 0

\* tuple('Fog Level' if s == 'Shade Alpha' else s for s in formula)
FogLevelFor(formula) ==
    [n \in DOMAIN formula |->
        IF formula[n] = "Shade Alpha" THEN "Fog Level" ELSE formula[n]]

\* Mutation of FogSubstitution: the second blender formula is left as decoded.
FogSubstitution_NotBlender2(geometry_mode, comb, blnd) ==
    IF fog_bit(geometry_mode)
    THEN << FogLevelFor(comb[1]), FogLevelFor(comb[2]),
            FogLevelFor(blnd[1]), blnd[2] >>
    ELSE << comb[1], comb[2], blnd[1], blnd[2] >>

\* The decoded formulas <<c1, c2, b1, b2>> after the fog substitution; comb
\* and blnd are the pairs the two decoders return.
FogSubstitution(geometry_mode, comb, blnd) ==
    IF fog_bit(geometry_mode)
    THEN << FogLevelFor(comb[1]), FogLevelFor(comb[2]),
            FogLevelFor(blnd[1]), FogLevelFor(blnd[2]) >>
    ELSE << comb[1], comb[2], blnd[1], blnd[2] >>

\* if not two_cycle_mode: combiner2 = blender2 = None
CycleSelection(two_cycle, f) ==
    IF two_cycle
    THEN [combiner1 |-> f[1], combiner2 |-> f[2],
          blender1 |-> f[3], blender2 |-> f[4]]
    ELSE [combiner1 |-> f[1], combiner2 |-> None,
          blender1 |-> f[3], blender2 |-> None]

\* The formulas create_material hands on.
Formulas(combiner_mux, other_mode, geometry_mode) ==
    CycleSelection(two_cycle_mode(other_mode),
                   FogSubstitution(geometry_mode,
                                   decode_combiner_mode(combiner_mux),
                                   decode_blender_mode(other_mode)))

TexInfo(crc, other_mode, wrapS, wrapT, uv_map) ==
    [crc |-> crc, filter |-> get_texture_filter(other_mode),
     wrapS |-> get_texture_wrap_mode(wrapS),
     wrapT |-> get_texture_wrap_mode(wrapT), uv_map |-> uv_map]

ArgsOf(f, tex0, tex1, cull_backface, alpha) ==
    [combiner1 |-> f.combiner1, combiner2 |-> f.combiner2,
     blender1 |-> f.blender1, blender2 |-> f.blender2,
     tex0 |-> tex0, tex1 |-> tex1,
     cull_backface |-> cull_backface, show_alpha |-> alpha]

\* Mutation of MaterialArgs: the raw geometry mode is handed on as well.
MaterialArgs_WithGeometry(matinfo, ucode, culling, alpha) ==
    [geometry_mode |-> matinfo[3]]
       @@ ArgsOf(Formulas(matinfo[1], matinfo[2], matinfo[3]),
                 TexInfo(matinfo[4], matinfo[2], matinfo[5], matinfo[6], "UV0"),
                 TexInfo(matinfo[7], matinfo[2], matinfo[8], matinfo[9], "UV1"),
                 get_backface_culling(matinfo[3], ucode) /\ culling,
                 alpha)

\* The tuple args of create_material; matinfo is the 9-tuple key
\* (combiner_mux, other_mode, geometry_mode, tex0_crc, tex0_wrapS,
\* tex0_wrapT, tex1_crc, tex1_wrapS, tex1_wrapT).
MaterialArgs(matinfo, ucode, culling, alpha) ==
    ArgsOf(Formulas(matinfo[1], matinfo[2], matinfo[3]),
           TexInfo(matinfo[4], matinfo[2], matinfo[5], matinfo[6], "UV0"),
           TexInfo(matinfo[7], matinfo[2], matinfo[8], matinfo[9], "UV1"),
           get_backface_culling(matinfo[3], ucode) /\ culling,
           alpha)

\* Mutation of MaterialName: the name does not depend on the args.
MaterialName_NoHash(args) == << "N64 Shader", << >> >>

\* 'N64 Shader ' + the first 16 hex digits of sha256(str(args)): the name
\* stands for the args it is computed from (hash collisions are not modelled).
MaterialName(args) == << "N64 Shader", args >>

-----------------------------------------------------------------------------
(* The GLR file *)

\* A vertex sub-record is the 11 floats <<x, y, z, r, g, b, a, s0, t0, s1, t1>>.
VertsA ==
    << << 1, 2, 3, 10, 11, 12, 5, 0, 1, 2, 3 >>,
       << 0, 0, 0, 0, 0, 0, 0, 0, 0, 0, 0 >>,
       << -1, 4, -2, 1, 1, 1, 7, 1, 0, 0, 1 >> >>

VertsB ==
    << << 5, -6, 7, 2, 3, 4, 0, 1, 1, 0, 0 >>,
       << 2, 2, 2, 9, 9, 9, 9, 0, 0, 1, 1 >>,
       << -3, 0, 8, 6, 5, 4, 1, 2, 0, 0, 2 >> >>

StateA ==
    [ fog |-> << 1, 1, 1, 1 >>, blend |-> << 2, 2, 2, 2 >>,
      env |-> << 3, 3, 3, 3 >>, prim |-> << 4, 4, 4, 4 >>,
      prim_l |-> 0, prim_m |-> 0, fog_multiplier |-> 0, fog_offset |-> 0,
      k4 |-> 0, k5 |-> 0,
      combiner_mux |-> {52, 48, 47, 44, 41, 15, 9},
      other_mode |-> {},
      geometry_mode |-> {},
      tex0_crc |-> 43981, tex0_maskS |-> 5, tex0_maskT |-> 5,
      tex0_wrapS |-> 0, tex0_wrapT |-> 0,
      tex1_crc |-> 0, tex1_maskS |-> 0, tex1_maskT |-> 0,
      tex1_wrapS |-> 0, tex1_wrapT |-> 0 ]

\* The triangle records the checked files are made of.  The second has the
\* key of the first and other vertices, colours and masks; the third and
\* fourth differ from the first in one key field only (the last, the first).
Kinds ==
    { [verts |-> VertsA, state |-> StateA],
      [verts |-> VertsB,
       state |-> [StateA EXCEPT !.prim = << 7, 7, 7, 7 >>, !.tex0_maskS = 6,
                                !.fog = << 0, 0, 0, 0 >>]],
      [verts |-> VertsA, state |-> [StateA EXCEPT !.tex1_wrapT = 1]],
      [verts |-> VertsA, state |-> [StateA EXCEPT !.combiner_mux = {53, 6}]],
      [verts |-> VertsB,
       state |-> [StateA EXCEPT !.tex0_crc = 4660, !.geometry_mode = {16},
                                !.other_mode = {27}]],
      [verts |-> VertsA,
       state |-> [StateA EXCEPT !.tex0_crc = 0, !.geometry_mode = {16, 13},
                                !.other_mode = {52, 30, 27, 22}]],
      [verts |-> VertsB, state |-> [StateA EXCEPT !.geometry_mode = {13}]] }

\* What a read past the data or off a record boundary yields.
GarbageVert == << 99, 99, 99, 99, 99, 99, 99, 99, 99, 99, 99 >>

GarbageState ==
    [StateA EXCEPT !.combiner_mux = {63}, !.other_mode = {63},
                   !.geometry_mode = {31}, !.tex0_crc = 9999, !.tex1_crc = 9999]

SeqsUpTo(S, n) == UNION { [1..m -> S] : m \in 0..n }

\* Files with a valid header that declares n triangles, and either as many complete
\* records (bytes after them are never read) or fewer, followed by tail bytes
\* of a cut record: 0, 100 (inside the third vertex) or 200 (inside the
\* state).
ValidFiles(n) ==
    UNION { { [magic_ok |-> TRUE, version |-> 3, romname |-> "",
               name |-> "scene.glr", num_tris |-> n, microcode |-> 2,
               recs |-> r, tail |-> t] :
              t \in IF Len(r) = n THEN {0} ELSE {0, 100, 200} } :
            r \in SeqsUpTo(Kinds, n) }

\* Files whose header load_header rejects; nothing after the header is read.
InvalidFiles ==
    { [magic_ok |-> m, version |-> v, romname |-> "", name |-> "scene.glr",
       num_tris |-> 1, microcode |-> 2, recs |-> << >>, tail |-> 0] :
      m \in BOOLEAN, v \in {0, 1, 2, 4, 65535} }
    \cup
    { [magic_ok |-> FALSE, version |-> 3, romname |-> "", name |-> "scene.glr",
       num_tris |-> 1, microcode |-> 2, recs |-> << >>, tail |-> 0] }

FileSize(file) == 36 + 264 * Len(file.recs) + file.tail

Min(a, b) == IF a < b THEN a ELSE b

\* Length of what fb.read(n) returns at offset p.
ReadLen(file, p, n) == Min(n, FileSize(file) - p)

\* The 44 bytes at offset p, unpacked.
VertAt(file, p) ==
    LET k == (p - 36) \div 264
        o == (p - 36) % 264
    IN  IF p >= 36 /\ k < Len(file.recs) /\ o \in {0, 44, 88}
        THEN file.recs[k + 1].verts[(o \div 44) + 1]
        ELSE GarbageVert

\* The 132 bytes at offset p, unpacked.
StateAt(file, p) ==
    LET k == (p - 36) \div 264
        o == (p - 36) % 264
    IN  IF p >= 36 /\ k < Len(file.recs) /\ o = 132
        THEN file.recs[k + 1].state
        ELSE GarbageState

-----------------------------------------------------------------------------
(* State *)

VARIABLES
    fb,              \* the open file (its whole content)
    pos,             \* the file offset: bytes read so far
    filter_mode,     \* self.filter_mode: TRUE = deny list, FALSE = allow list
    filter_list,     \* self.filter_list: a set of CRCs
    enable_fog,      \* self.enable_fog
    show_alpha,      \* self.show_alpha
    display_culling, \* self.display_culling
    obj_name,        \* self.obj_name
    num_tris,        \* self.num_tris
    microcode,       \* self.microcode
    pc,              \* where the import stands
    err,             \* the exception that ended it, or NoError
    i,               \* the loop variable of do_tris
    verts, faces, shade_colors, prim_colors, env_colors, blend_colors,
    fog_colors, fog_levels, uvs0, uvs1,
    matinfo_cache,   \* the insertion-ordered dict, as <<[key, value], ...>>
    face_materials,
    j,               \* how many keys of matinfo_cache have their material
    mesh,            \* the mesh of bpy.data.meshes.new, or None
    bpy_materials,   \* the names in bpy.data.materials
    setup_calls,     \* the args of the calls of setup_n64_material, in order
    ob,              \* the object returned, or None
    arg,             \* the argument of a function called on its own
    ret              \* what that call returned

optVars == << filter_mode, filter_list, enable_fog, show_alpha, display_culling >>
hdrVars == << obj_name, num_tris, microcode >>
bufVars == << verts, faces, shade_colors, prim_colors, env_colors, blend_colors,
              fog_colors, fog_levels, uvs0, uvs1, matinfo_cache, face_materials >>
outVars == << j, mesh, bpy_materials, setup_calls, ob >>
callVars == << arg, ret >>
importVars == << fb, pos, optVars, hdrVars, err, i, bufVars, outVars >>
vars == << importVars, pc, callVars >>

\* The filter lists of the checked imports (43981 = 0xABCD, 4660 = 0x1234).
FilterLists == { {}, {43981}, {0, 4660} }

\* GlrImporter(fb, texture_dir, filter_mode=.., filter_list=.., enable_fog=..)
\* with the other options at their defaults, before load().
InitImporter ==
    /\ \/ \E n \in 0..MaxTris : fb \in ValidFiles(n)
       \/ fb \in InvalidFiles
    /\ pos = 0
    /\ filter_mode \in BOOLEAN
    /\ filter_list \in FilterLists
    /\ enable_fog \in BOOLEAN
    /\ show_alpha = TRUE
    /\ display_culling = FALSE
    /\ obj_name = None /\ num_tris = None /\ microcode = None
    /\ pc = "load_header"
    /\ err = NoError
    /\ i = 0
    /\ verts = << >> /\ faces = << >> /\ shade_colors = << >>
    /\ prim_colors = << >> /\ env_colors = << >> /\ blend_colors = << >>
    /\ fog_colors = << >> /\ fog_levels = << >> /\ uvs0 = << >> /\ uvs1 = << >>
    /\ matinfo_cache = << >> /\ face_materials = << >>
    /\ j = 0
    /\ mesh = None
    /\ bpy_materials = {}
    /\ setup_calls = << >>
    /\ ob = None
    /\ arg = None /\ ret = None

-----------------------------------------------------------------------------
(* import_glr.py: GlrImporter.load_header *)

\* Mutation of VersionError: the lower bound of the outdated range is
\* inclusive, so version 0 counts as outdated.
VersionError_ZeroOutdated(version) ==
    IF version >= 0 /\ version < 3 THEN "Outdated glr file format detected"
    ELSE IF version # 3 THEN "Unknown N64 Ripper version encountered"
    ELSE NoError

\* The outcome of the version check: NoError when the version is accepted.
VersionError(version) ==
    IF version > 0 /\ version < 3 THEN "Outdated glr file format detected"
    ELSE IF version # 3 THEN "Unknown N64 Ripper version encountered"
    ELSE NoError

ObjName(file) ==
    << IF file.romname = "" THEN "Unknown N64 Game" ELSE file.romname, file.name >>

load_header ==
    /\ pc = "load_header"
    /\ IF ~fb.magic_ok
       THEN /\ pos' = 6
            /\ err' = "Not a valid glr file"
            /\ pc' = "error"
            /\ UNCHANGED hdrVars
       ELSE IF VersionError(fb.version) # NoError
       THEN /\ pos' = 8
            /\ err' = VersionError(fb.version)
            /\ pc' = "error"
            /\ UNCHANGED hdrVars
       ELSE /\ pos' = 36
            /\ obj_name' = ObjName(fb)
            /\ num_tris' = fb.num_tris
            /\ microcode' = fb.microcode
            /\ pc' = "do_tris"
            /\ UNCHANGED err
    /\ UNCHANGED << fb, optVars, i, bufVars, outVars, callVars >>

-----------------------------------------------------------------------------
(* import_glr.py: GlrImporter.do_tris, one iteration of the loop *)

\* Mutation of Blacklisted: the filter mode is ignored (always a deny list).
Blacklisted_DenyOnly(tex0_crc, flist, fmode) == tex0_crc \in flist

\* Skip tris blacklisted by their texture CRC.
Blacklisted(tex0_crc, flist, fmode) ==
    LET blacklisted == tex0_crc \in flist
    IN  IF ~fmode THEN ~blacklisted ELSE blacklisted

\* Mutation of Yup2Zup: the axes are swapped and no sign is flipped.
Yup2Zup_NoFlip(x, y, z) == << x, z, y >>

Yup2Zup(x, y, z) == << x, -z, y >>

\* Mutation of FogLevel: any geometry-mode bit enables the fog level.
FogLevel_AnyBit(a, geometry_mode) == IF geometry_mode # {} THEN a ELSE 0

\* a if geometry_mode & 0x10000 else 0
FogLevel(a, geometry_mode) == IF fog_bit(geometry_mode) THEN a ELSE 0

\* Mutation of Matinfo: the texture-0 mask is made part of the key.
Matinfo_WithMask(st) ==
    << st.combiner_mux, st.other_mode, st.geometry_mode,
       st.tex0_crc, st.tex0_wrapS, st.tex0_wrapT,
       st.tex1_crc, st.tex1_wrapS, st.tex1_wrapT, st.tex0_maskS >>

\* The key of the material of a triangle.
Matinfo(st) ==
    << st.combiner_mux, st.other_mode, st.geometry_mode,
       st.tex0_crc, st.tex0_wrapS, st.tex0_wrapT,
       st.tex1_crc, st.tex1_wrapS, st.tex1_wrapT >>

DictKeys(d) == { d[n].key : n \in DOMAIN d }

DictGet(d, key) == (CHOOSE n \in DOMAIN d : d[n].key = key) 

\* Mutation of SetDefault: a new key goes to the front of the dict.
SetDefault_Prepend(d, key, default) ==
    IF key \in DictKeys(d)
    THEN << d, d[DictGet(d, key)].value >>
    ELSE << << [key |-> key, value |-> default] >> \o d, default >>

\* dict.setdefault(key, default): <<the dict afterwards, the value returned>>.
SetDefault(d, key, default) ==
    IF key \in DictKeys(d)
    THEN << d, d[DictGet(d, key)].value >>
    ELSE << Append(d, [key |-> key, value |-> default]), default >>

\* Mutation of ShadeOf: the alpha is left out of the shade colour.
ShadeOf_NoAlpha(v) == << v[4], v[5], v[6] >>

\* shade_colors += [r, g, b, a]
ShadeOf(v) == << v[4], v[5], v[6], v[7] >>
Uv0Of(v) == << v[8], v[9] >>
Uv1Of(v) == << v[10], v[11] >>

\* Mutation of ReadTri: the state is taken from the front of the record and
\* the vertices from behind it.
ReadTri_StateFirst(file, p) ==
    [ n1 |-> ReadLen(file, p, 44),
      n2 |-> ReadLen(file, p + ReadLen(file, p, 44), 44),
      n3 |-> ReadLen(file, Min(p + 88, FileSize(file)), 44),
      ns |-> ReadLen(file, Min(p + 132, FileSize(file)), 132),
      tri_verts |-> << VertAt(file, p + 132), VertAt(file, p + 176),
                       VertAt(file, p + 220) >>,
      st |-> StateAt(file, p),
      end |-> Min(p + 264, FileSize(file)) ]

\* The reads of one iteration, at offset p: three times fb.read(44), then
\* fb.read(132); n1, n2, n3, ns are the lengths read.
ReadTri(file, p) ==
    [ n1 |-> ReadLen(file, p, 44),
      n2 |-> ReadLen(file, p + ReadLen(file, p, 44), 44),
      n3 |-> ReadLen(file, Min(p + 88, FileSize(file)), 44),
      ns |-> ReadLen(file, Min(p + 132, FileSize(file)), 132),
      tri_verts |-> << VertAt(file, p), VertAt(file, p + 44),
                       VertAt(file, p + 88) >>,
      st |-> StateAt(file, p + 132),
      end |-> Min(p + 264, FileSize(file)) ]

\* The buffers after a triangle that passed the filter; sd is what
\* setdefault returned.
EmitTri(tv, st, sd) ==
    /\ shade_colors' = shade_colors \o ShadeOf(tv[1]) \o ShadeOf(tv[2])
                                     \o ShadeOf(tv[3])
    /\ uvs0' = uvs0 \o Uv0Of(tv[1]) \o Uv0Of(tv[2]) \o Uv0Of(tv[3])
    /\ uvs1' = uvs1 \o Uv1Of(tv[1]) \o Uv1Of(tv[2]) \o Uv1Of(tv[3])
    /\ verts' = verts \o << Yup2Zup(tv[1][1], tv[1][2], tv[1][3]),
                             Yup2Zup(tv[2][1], tv[2][2], tv[2][3]),
                             Yup2Zup(tv[3][1], tv[3][2], tv[3][3]) >>
    /\ fog_levels' = fog_levels \o << FogLevel(tv[1][7], st.geometry_mode),
                                       FogLevel(tv[2][7], st.geometry_mode),
                                       FogLevel(tv[3][7], st.geometry_mode) >>
    /\ prim_colors' = prim_colors \o st.prim \o st.prim \o st.prim
    /\ env_colors' = env_colors \o st.env \o st.env \o st.env
    /\ blend_colors' = blend_colors \o st.blend \o st.blend \o st.blend
    /\ fog_colors' = fog_colors \o st.fog \o st.fog \o st.fog
    /\ faces' = Append(faces, << Len(verts') - 3, Len(verts') - 2,
                                 Len(verts') - 1 >>)
    /\ matinfo_cache' = sd[1]
    /\ face_materials' = Append(face_materials, sd[2])

\* Mutation of StructError: a short buffer is unpacked all the same.
StructError_Never(buf_len, size) == FALSE

\* struct.unpack raises struct.error unless the buffer has the size of the
\* format.
StructError(buf_len, size) == buf_len # size

\* Mutation of TriBody: the key of a triangle is entered into the key table
\* before the triangle is filtered.
TriBody_KeyBeforeFilter(rd) ==
    /\ pos' = rd.end
    /\ IF StructError(rd.ns, 132)
       THEN /\ err' = "struct.error"
            /\ pc' = "error"
            /\ UNCHANGED << i, bufVars >>
       ELSE IF Blacklisted(rd.st.tex0_crc, filter_list, filter_mode)
       THEN /\ i' = i + 1
            /\ matinfo_cache' = SetDefault(matinfo_cache, Matinfo(rd.st),
                                           Len(matinfo_cache))[1]
            /\ UNCHANGED << pc, err, verts, faces, shade_colors, prim_colors,
                            env_colors, blend_colors, fog_colors, fog_levels,
                            uvs0, uvs1, face_materials >>
       ELSE IF StructError(rd.n1, 44) \/ StructError(rd.n2, 44)
               \/ StructError(rd.n3, 44)
       THEN /\ err' = "struct.error"
            /\ pc' = "error"
            /\ UNCHANGED << i, bufVars >>
       ELSE /\ EmitTri(rd.tri_verts, rd.st,
                       SetDefault(matinfo_cache, Matinfo(rd.st),
                                  Len(matinfo_cache)))
            /\ i' = i + 1
            /\ UNCHANGED << pc, err >>

TriBody(rd) ==
    /\ pos' = rd.end
    /\ IF StructError(rd.ns, 132)
       THEN \* struct.error: unpack requires a buffer of 132 bytes
            /\ err' = "struct.error"
            /\ pc' = "error"
            /\ UNCHANGED << i, bufVars >>
       ELSE IF Blacklisted(rd.st.tex0_crc, filter_list, filter_mode)
       THEN \* continue
            /\ i' = i + 1
            /\ UNCHANGED << pc, err, bufVars >>
       ELSE IF StructError(rd.n1, 44) \/ StructError(rd.n2, 44)
               \/ StructError(rd.n3, 44)
       THEN \* struct.error: unpack requires a buffer of 44 bytes
            /\ err' = "struct.error"
            /\ pc' = "error"
            /\ UNCHANGED << i, bufVars >>
       ELSE /\ EmitTri(rd.tri_verts, rd.st,
                       SetDefault(matinfo_cache, Matinfo(rd.st),
                                  Len(matinfo_cache)))
            /\ i' = i + 1
            /\ UNCHANGED << pc, err >>

TriStep ==
    /\ pc = "do_tris"
    /\ i < num_tris
    /\ TriBody(ReadTri(fb, pos))
    /\ UNCHANGED << fb, optVars, hdrVars, outVars, callVars >>

-----------------------------------------------------------------------------
(* import_glr.py: GlrImporter.do_tris, after the loop *)

\* mesh = bpy.data.meshes.new(self.obj_name); mesh.from_pydata(verts, [], faces)
CreateMesh ==
    /\ pc = "do_tris"
    /\ i = num_tris
    /\ mesh' = [name |-> obj_name, verts |-> verts, faces |-> faces,
                materials |-> << >>, material_index |-> None,
                layers |-> None, fog_level |-> None]
    /\ pc' = "materials"
    /\ UNCHANGED << fb, pos, optVars, hdrVars, err, i, bufVars, j,
                    bpy_materials, setup_calls, ob, callVars >>

\* One iteration of: for matinfo in matinfo_cache:
\*     mesh.materials.append(self.create_material(matinfo))
AppendMaterial(args) ==
    /\ IF MaterialName(args) \in bpy_materials
       THEN UNCHANGED << bpy_materials, setup_calls >>
       ELSE /\ bpy_materials' = bpy_materials \cup {MaterialName(args)}
            /\ setup_calls' = Append(setup_calls, args)
    /\ mesh' = [mesh EXCEPT !.materials = Append(@, MaterialName(args))]

CreateMaterial ==
    /\ pc = "materials"
    /\ j < Len(matinfo_cache)
    /\ AppendMaterial(MaterialArgs(matinfo_cache[j + 1].key, microcode,
                                   display_culling, show_alpha))
    /\ j' = j + 1
    /\ UNCHANGED << fb, pos, optVars, hdrVars, pc, err, i, bufVars, ob,
                    callVars >>

\* Mutation of AnyTrue: only the first element is looked at.
AnyTrue_FirstOnly(s) == s # << >> /\ Head(s) # 0

\* any(fog_levels)
RECURSIVE AnyTrue(_)
AnyTrue(s) == IF s = << >> THEN FALSE ELSE (Head(s) # 0 \/ AnyTrue(Tail(s)))

\* The material indices, the colour and UV layers, the Fog Level attribute
\* and the object.
Finish ==
    /\ pc = "materials"
    /\ j = Len(matinfo_cache)
    /\ mesh' = [mesh EXCEPT
                  !.material_index = face_materials,
                  !.layers = [shade |-> shade_colors, prim |-> prim_colors,
                              env |-> env_colors, blend |-> blend_colors,
                              fog |-> fog_colors, uv0 |-> uvs0, uv1 |-> uvs1],
                  !.fog_level = IF enable_fog /\ AnyTrue(fog_levels)
                                THEN fog_levels ELSE None]
    /\ ob' = [name |-> mesh.name]
    /\ pc' = "done"
    /\ UNCHANGED << fb, pos, optVars, hdrVars, err, i, bufVars, j,
                    bpy_materials, setup_calls, callVars >>

Init == InitImporter

Next == load_header \/ TriStep \/ CreateMesh \/ CreateMaterial \/ Finish

Spec == Init /\ [][Next]_vars

-----------------------------------------------------------------------------
(* Properties of the decode loop.  They are stated over the file: the       *)
(* records 1..i are the ones the loop has processed.                        *)

\* The header was accepted and records are being, or have been, processed.
InBody == pc \in {"do_tris", "materials", "done"}
          \/ (pc = "error" /\ err = "struct.error")

\* Record k is to be dropped: in deny mode when its texture-0 CRC is in the
\* filter set, in allow mode when it is not.
Dropped(k) ==
    IF filter_mode
    THEN fb.recs[k].state.tex0_crc \in filter_list
    ELSE fb.recs[k].state.tex0_crc \notin filter_list

\* The records among 1..n that are not to be dropped, in stream order.
RECURSIVE Surviving(_)
Surviving(n) ==
    IF n = 0 THEN << >>
    ELSE Surviving(n - 1) \o (IF Dropped(n) THEN << >> ELSE << n >>)

\* The nine key fields of record k.
KeyOf(k) ==
    [ mux |-> fb.recs[k].state.combiner_mux,
      other |-> fb.recs[k].state.other_mode,
      geom |-> fb.recs[k].state.geometry_mode,
      crc0 |-> fb.recs[k].state.tex0_crc,
      wrapS0 |-> fb.recs[k].state.tex0_wrapS,
      wrapT0 |-> fb.recs[k].state.tex0_wrapT,
      crc1 |-> fb.recs[k].state.tex1_crc,
      wrapS1 |-> fb.recs[k].state.tex1_wrapS,
      wrapT1 |-> fb.recs[k].state.tex1_wrapT ]

\* sv is Surviving(i): face f comes from record sv[f].
SameKeySameIndex(sv) ==
    \A f \in DOMAIN sv : \A g \in DOMAIN sv :
        KeyOf(sv[f]) = KeyOf(sv[g]) => face_materials[f] = face_materials[g]

\* C1: any two surviving triangles whose nine key fields are all equal get
\* the same material index, and the ordered material list holds no key twice.
C1_SameKeySameIndex ==
    InBody =>
       /\ Len(face_materials) = Len(Surviving(i))
       /\ SameKeySameIndex(Surviving(i))
       /\ \A m \in DOMAIN matinfo_cache : \A n \in DOMAIN matinfo_cache :
             m # n => matinfo_cache[m].key # matinfo_cache[n].key

\* Two surviving triangles with one key and different vertices, colours and
\* masks, and a third with another key, have been indexed.
C1_Witness ==
    /\ pc = "done"
    /\ Len(matinfo_cache) = 2
    /\ \E f \in DOMAIN face_materials : \E g \in DOMAIN face_materials :
          /\ f # g
          /\ face_materials[f] = face_materials[g]
          /\ fb.recs[Surviving(i)[f]] # fb.recs[Surviving(i)[g]]

\* The number of distinct keys among the faces before the first face that has
\* the key of face f.
FirstSeenIndex(sv, f) ==
    Cardinality({ KeyOf(sv[h]) :
                  h \in { h \in 1..f :
                          \A e \in 1..h : KeyOf(sv[e]) # KeyOf(sv[f]) } })

FirstSeenOrder(sv) ==
    /\ Len(face_materials) = Len(sv)
    /\ \A f \in DOMAIN sv : face_materials[f] = FirstSeenIndex(sv, f)
    /\ \A n \in DOMAIN matinfo_cache : matinfo_cache[n].value = n - 1
    /\ \A f \in DOMAIN sv :
          matinfo_cache[face_materials[f] + 1].key = Matinfo(fb.recs[sv[f]].state)

\* The materials of the mesh are those of the keys, in the order of the keys.
MaterialsInKeyOrder ==
    pc \in {"materials", "done"} =>
       /\ Len(mesh.materials) = j
       /\ \A n \in 1..j :
             mesh.materials[n] =
                MaterialName(MaterialArgs(matinfo_cache[n].key, microcode,
                                          display_culling, show_alpha))
       /\ pc = "done" => j = Len(matinfo_cache)

\* No index given to a face and no entry of the key table changes in a step.
IndicesStable ==
    /\ \A f \in DOMAIN face_materials :
          f \in DOMAIN face_materials' /\ face_materials'[f] = face_materials[f]
    /\ \A n \in DOMAIN matinfo_cache :
          n \in DOMAIN matinfo_cache' /\ matinfo_cache'[n] = matinfo_cache[n]

\* C2: keys are indexed in first-seen order: the index of a key is the number
\* of distinct keys of surviving triangles seen before it, an index once
\* assigned never changes while later records are processed, and the
\* materials are created in that order.
C2_FirstSeenOrder ==
    /\ [](InBody => FirstSeenOrder(Surviving(i)))
    /\ [](MaterialsInKeyOrder)
    /\ [][IndicesStable]_vars

\* A key seen first, a second key, then the first key again: indices 0, 1, 0,
\* and two materials in that order.
C2_Witness ==
    /\ pc = "done"
    /\ face_materials = << 0, 1, 0 >>
    /\ Len(mesh.materials) = 2
    /\ mesh.materials[1] # mesh.materials[2]

\* C3: with a valid magic, load_header accepts the header only when the
\* version is 3; versions 1 and 2 fail as outdated and every other version,
\* 0 included, fails as unknown.
C3_VersionCheck ==
    (pc # "load_header" /\ fb.magic_ok) =>
       /\ (obj_name # None) <=> (fb.version = 3)
       /\ fb.version = 3 => err \notin {"Outdated glr file format detected",
                                        "Unknown N64 Ripper version encountered",
                                        "Not a valid glr file"}
       /\ fb.version \in {1, 2} =>
             pc = "error" /\ err = "Outdated glr file format detected"
       /\ fb.version \notin {1, 2, 3} =>
             pc = "error" /\ err = "Unknown N64 Ripper version encountered"

\* Version 0 was rejected as unknown.
C3_Witness ==
    /\ pc = "error"
    /\ fb.magic_ok
    /\ fb.version = 0
    /\ err = "Unknown N64 Ripper version encountered"

\* Face f carries the data of record sv[f]: its shade colours, its key's
\* index, and its three vertices.
FaceIsRecord(sv, f) ==
    /\ faces[f] = << 3 * f - 3, 3 * f - 2, 3 * f - 1 >>
    /\ \A c \in 1..3 : \A n \in 1..4 :
          shade_colors[12 * (f - 1) + 4 * (c - 1) + n]
             = fb.recs[sv[f]].verts[c][3 + n]
    /\ matinfo_cache[face_materials[f] + 1].key = Matinfo(fb.recs[sv[f]].state)

\* C4: a triangle is dropped (no vertex, no face, no material index) exactly
\* when, in deny mode, its texture-0 CRC is in the filter set, or, in allow
\* mode, it is not; CRC 0 is filtered like any other.
C4_CrcFilter ==
    InBody =>
       /\ Len(faces) = Len(Surviving(i))
       /\ Len(verts) = 3 * Len(Surviving(i))
       /\ Len(face_materials) = Len(Surviving(i))
       /\ Len(shade_colors) = 12 * Len(Surviving(i))
       /\ \A f \in DOMAIN faces : FaceIsRecord(Surviving(i), f)

\* In deny mode with CRC 0 listed, an untextured triangle was dropped and a
\* textured one kept.
C4_Witness ==
    /\ pc = "done"
    /\ filter_mode
    /\ 0 \in filter_list
    /\ \E k \in 1..i : fb.recs[k].state.tex0_crc = 0
    /\ Len(faces) = 1
    /\ i = 3

\* Fewer complete records than the header declares.
Truncated == fb.magic_ok /\ fb.version = 3 /\ Len(fb.recs) < fb.num_tris

\* C5: a stream with fewer complete records than its header declares ends in
\* an error and produces nothing: no mesh, no material, no object.
C5_TruncatedStream ==
    Truncated =>
       /\ pc \in {"load_header", "do_tris", "error"}
       /\ pc = "do_tris" => i <= Len(fb.recs)
       /\ pc = "error" => err = "struct.error"
       /\ mesh = None
       /\ bpy_materials = {}
       /\ setup_calls = << >>
       /\ ob = None

\* The import failed inside the state of the third record, after two
\* triangles had been decoded.
C5_Witness ==
    /\ pc = "error"
    /\ err = "struct.error"
    /\ fb.tail = 200
    /\ Len(faces) = 2
    /\ mesh = None

\* C6: every vertex of a surviving triangle read as (x, y, z) is appended to
\* the vertex buffer as (x, -z, y), in stream order.
C6_AxisSwap ==
    InBody =>
       /\ Len(verts) = 3 * Len(Surviving(i))
       /\ \A f \in DOMAIN Surviving(i) : \A c \in 1..3 :
             verts[3 * (f - 1) + c] =
                << fb.recs[Surviving(i)[f]].verts[c][1],
                   0 - fb.recs[Surviving(i)[f]].verts[c][3],
                   fb.recs[Surviving(i)[f]].verts[c][2] >>

\* A vertex with y # z and z # 0 is in the buffer of a finished import.
C6_Witness ==
    /\ pc = "done"
    /\ Len(verts) >= 6
    /\ \E k \in 1..i : \E n \in DOMAIN verts :
          /\ fb.recs[k].verts[1][3] = 7
          /\ verts[n] = << 5, -7, -6 >>

\* C7: the fog level of an emitted vertex is its shade alpha when bit 0x10000
\* (bit 16) of its triangle's geometry mode is set, and 0 when it is clear.
C7_FogLevel ==
    InBody =>
       /\ Len(fog_levels) = 3 * Len(Surviving(i))
       /\ \A f \in DOMAIN Surviving(i) : \A c \in 1..3 :
             fog_levels[3 * (f - 1) + c] =
                IF 16 \in fb.recs[Surviving(i)[f]].state.geometry_mode
                THEN fb.recs[Surviving(i)[f]].verts[c][7]
                ELSE 0

\* A fogged triangle with a non-zero alpha, and an unfogged one with another
\* geometry-mode bit set and a non-zero alpha, are both in the buffers.
C7_Witness ==
    /\ pc = "done"
    /\ \E f \in DOMAIN Surviving(i) : \E g \in DOMAIN Surviving(i) :
          /\ fb.recs[Surviving(i)[f]].state.geometry_mode = {16}
          /\ fog_levels[3 * (f - 1) + 2] = 9
          /\ fb.recs[Surviving(i)[g]].state.geometry_mode = {13}
          /\ fb.recs[Surviving(i)[g]].verts[2][7] = 9
          /\ fog_levels[3 * (g - 1) + 2] = 0

-----------------------------------------------------------------------------
(* decode_combiner_mode called on its own, on muxes built from sub-field    *)
(* values.                                                                  *)

\* How many sub-fields of a checked mux differ from the background value.
MaxSetFields == 1

\* The place of each sub-field in the mux: <<offset, width>>.
FieldLayout ==
    [ a_rgb1 |-> << 52, 4 >>, c_rgb1 |-> << 47, 5 >>, a_a1 |-> << 44, 3 >>,
      c_a1 |-> << 41, 3 >>, a_rgb2 |-> << 37, 4 >>, c_rgb2 |-> << 32, 5 >>,
      b_rgb1 |-> << 28, 4 >>, b_rgb2 |-> << 24, 4 >>, a_a2 |-> << 21, 3 >>,
      c_a2 |-> << 18, 3 >>, d_rgb1 |-> << 15, 3 >>, b_a1 |-> << 12, 3 >>,
      d_a1 |-> << 9, 3 >>, d_rgb2 |-> << 6, 3 >>, b_a2 |-> << 3, 3 >>,
      d_a2 |-> << 0, 3 >> ]

FieldNames == DOMAIN FieldLayout

\* The bits of value v placed at offset off.
PlaceBits(v, off, width) ==
    { off + k : k \in { k \in 0..(width - 1) : (v \div (2 ^ k)) % 2 = 1 } }

\* The mux that holds value fv[f] in every sub-field f.
BuildMux(fv) ==
    UNION { PlaceBits(fv[f], FieldLayout[f][1], FieldLayout[f][2]) : f \in FieldNames }

\* Every sub-field zero, and every sub-field at its largest value.
Backgrounds ==
    { [f \in FieldNames |-> 0],
      [f \in FieldNames |-> 2 ^ FieldLayout[f][2] - 1] }

\* The assignments that differ from a background in at most n sub-fields.
RECURSIVE FieldValues(_)
FieldValues(n) ==
    IF n = 0 THEN Backgrounds
    ELSE FieldValues(n - 1) \cup
         UNION { UNION { { [fv EXCEPT ![f] = v] :
                           v \in 0..(2 ^ FieldLayout[f][2] - 1) } :
                         f \in FieldNames } :
                 fv \in FieldValues(n - 1) }

\* The importer is not running.
Idle ==
    /\ fb = None /\ pos = 0
    /\ filter_mode = TRUE /\ filter_list = {} /\ enable_fog = TRUE
    /\ show_alpha = TRUE /\ display_culling = FALSE
    /\ obj_name = None /\ num_tris = None /\ microcode = None
    /\ err = NoError /\ i = 0
    /\ verts = << >> /\ faces = << >> /\ shade_colors = << >>
    /\ prim_colors = << >> /\ env_colors = << >> /\ blend_colors = << >>
    /\ fog_colors = << >> /\ fog_levels = << >> /\ uvs0 = << >> /\ uvs1 = << >>
    /\ matinfo_cache = << >> /\ face_materials = << >>
    /\ j = 0 /\ mesh = None /\ bpy_materials = {} /\ setup_calls = << >>
    /\ ob = None

InitCombiner ==
    /\ Idle
    /\ pc = "call"
    /\ \E fv \in FieldValues(MaxSetFields) :
          arg = [fields |-> fv, mux |-> BuildMux(fv)]
    /\ ret = None

CallDecodeCombiner ==
    /\ pc = "call"
    /\ ret' = decode_combiner_mode(arg.mux)
    /\ pc' = "returned"
    /\ UNCHANGED << importVars, arg >>

SpecCombiner == InitCombiner /\ [][CallDecodeCombiner]_vars

\* C8: decode_combiner_mode of a mux built by placing values in the 16
\* sub-fields at their offsets returns, per cycle, the 8-tuple (rgb a, b, c,
\* d, alpha a, b, c, d) of the table names of those values; each operand
\* depends on its own sub-field only.
C8_CombinerDecode ==
    pc = "returned" =>
       /\ ret[1] = << Get(RGB_A_TABLE, arg.fields.a_rgb1, "0"),
                      Get(RGB_B_TABLE, arg.fields.b_rgb1, "0"),
                      Get(RGB_C_TABLE, arg.fields.c_rgb1, "0"),
                      Get(RGB_D_TABLE, arg.fields.d_rgb1, "0"),
                      ALPHA_ABD_TABLE[arg.fields.a_a1],
                      ALPHA_ABD_TABLE[arg.fields.b_a1],
                      ALPHA_C_TABLE[arg.fields.c_a1],
                      ALPHA_ABD_TABLE[arg.fields.d_a1] >>
       /\ ret[2] = << Get(RGB_A_TABLE, arg.fields.a_rgb2, "0"),
                      Get(RGB_B_TABLE, arg.fields.b_rgb2, "0"),
                      Get(RGB_C_TABLE, arg.fields.c_rgb2, "0"),
                      Get(RGB_D_TABLE, arg.fields.d_rgb2, "0"),
                      ALPHA_ABD_TABLE[arg.fields.a_a2],
                      ALPHA_ABD_TABLE[arg.fields.b_a2],
                      ALPHA_C_TABLE[arg.fields.c_a2],
                      ALPHA_ABD_TABLE[arg.fields.d_a2] >>

\* c_rgb1 = 11 among sub-fields that are all ones decodes to Shade Alpha, and
\* its neighbours a_rgb1 and a_a1 to their own names.
C8_Witness ==
    /\ pc = "returned"
    /\ arg.fields.c_rgb1 = 11
    /\ arg.fields.a_rgb1 = 15
    /\ arg.fields.a_a1 = 7
    /\ ret[1][3] = "Shade Alpha"
    /\ ret[1][1] = "0"
    /\ ret[1][5] = "0"
    /\ ret[2][3] = "0"

-----------------------------------------------------------------------------
(* create_material called on its own: the formulas of a material key.       *)

\* Combiner muxes: all zero; Shade Alpha as c of the colour of cycle 1 and as
\* a of the alpha of both cycles; the pass-through second cycle.
MaterialMuxes ==
    { {},
      BuildMux([[f \in FieldNames |-> 0] EXCEPT
                   !.c_rgb1 = 11, !.a_a1 = 4, !.a_a2 = 4, !.c_rgb2 = 11]),
      BuildMux([[f \in FieldNames |-> 0] EXCEPT
                   !.a_rgb2 = 15, !.b_rgb2 = 15, !.c_rgb2 = 31, !.d_rgb2 = 0,
                   !.a_a2 = 7, !.b_a2 = 7, !.c_a2 = 7, !.d_a2 = 0]) }

\* Other modes: the four cycle types (bits 52..53), with and without the
\* neighbouring bits 51 and 54; blender a1 (bits 26..27) and a2 (bits
\* 24..25) at Combined Alpha or Shade Alpha, p1 at Framebuffer Color.
MaterialOtherModes ==
    { cyc \cup bl \cup nb :
      cyc \in { {}, {52}, {53}, {52, 53} },
      bl \in { {}, {27}, {25}, {30, 27, 25} },
      nb \in { {}, {51, 54} } }

MaterialGeometryModes == { {}, {16}, {16, 13}, {13}, {17, 10}, {15} }

InitMaterial ==
    /\ Idle
    /\ pc = "call"
    /\ \E mux \in MaterialMuxes, om \in MaterialOtherModes,
          gm \in MaterialGeometryModes, ucode \in {0, 2},
          culling \in BOOLEAN, alpha \in BOOLEAN :
          arg = [matinfo |-> << mux, om, gm, 43981, 0, 2, 0, 1, 0 >>,
                 microcode |-> ucode, display_culling |-> culling,
                 show_alpha |-> alpha]
    /\ ret = None

\* The args create_material computes for the key.
CallCreateMaterial ==
    /\ pc = "call"
    /\ ret' = MaterialArgs(arg.matinfo, arg.microcode, arg.display_culling,
                           arg.show_alpha)
    /\ pc' = "returned"
    /\ UNCHANGED << importVars, arg >>

SpecMaterial == InitMaterial /\ [][CallCreateMaterial]_vars

\* Bits 52..53 of the other mode of the call.
CycleBits ==
    (IF 52 \in arg.matinfo[2] THEN 1 ELSE 0)
    + (IF 53 \in arg.matinfo[2] THEN 2 ELSE 0)

\* C9: create_material treats a material as two-cycle iff bits 52..53 of the
\* other mode equal 1; for 0, 2 and 3 the second combiner formula and the
\* second blender formula are both absent.
C9_TwoCycle ==
    pc = "returned" =>
       /\ CycleBits = 1 => (ret.combiner2 # None /\ ret.blender2 # None)
       /\ CycleBits # 1 => (ret.combiner2 = None /\ ret.blender2 = None)

\* Cycle type 3 gave no second cycle.
C9_Witness ==
    /\ pc = "returned"
    /\ CycleBits = 3
    /\ ret.combiner2 = None
    /\ ret.blender2 = None
    /\ ret.combiner1 # None

\* Formula out is formula dec with every Shade Alpha replaced by Fog Level
\* and nothing else changed.
FogReplaced(out, dec) ==
    /\ DOMAIN out = DOMAIN dec
    /\ \A n \in DOMAIN dec :
          /\ out[n] # "Shade Alpha"
          /\ out[n] = (IF dec[n] = "Shade Alpha" THEN "Fog Level" ELSE dec[n])

\* out is absent, or relates to dec as the fog bit of the call demands.
FogRule(out, dec) ==
    out # None =>
       IF 16 \in arg.matinfo[3] THEN FogReplaced(out, dec) ELSE out = dec

\* C10: with geometry-mode bit 0x10000 set no formula of the pipeline holds
\* Shade Alpha: each occurrence is replaced by Fog Level and every other
\* operand is unchanged; with the bit clear the decoded formulas pass
\* unchanged.
C10_FogOperand ==
    pc = "returned" =>
       /\ ret.combiner1 # None /\ ret.blender1 # None
       /\ FogRule(ret.combiner1, decode_combiner_mode(arg.matinfo[1])[1])
       /\ FogRule(ret.combiner2, decode_combiner_mode(arg.matinfo[1])[2])
       /\ FogRule(ret.blender1, decode_blender_mode(arg.matinfo[2])[1])
       /\ FogRule(ret.blender2, decode_blender_mode(arg.matinfo[2])[2])

\* A two-cycle material with the fog bit set whose decoded formulas hold
\* Shade Alpha in the combiner and in both blender cycles.
C10_Witness ==
    /\ pc = "returned"
    /\ 16 \in arg.matinfo[3]
    /\ decode_blender_mode(arg.matinfo[2])[2][2] = "Shade Alpha"
    /\ ret.combiner2 # None
    /\ ret.blender2 # None
    /\ ret.combiner1[3] = "Fog Level"
    /\ ret.combiner2[5] = "Fog Level"
    /\ ret.blender1[2] = "Fog Level"
    /\ ret.blender2[2] = "Fog Level"
    /\ ret.blender1[1] = "Framebuffer Color"

-----------------------------------------------------------------------------
(* utils.py: formula rendering *)

\* sub = (a - b)
CombinerSub(a, b) ==
    IF a = b THEN "0"
    ELSE IF b = "0" THEN a
    ELSE IF a = "0" THEN "- " \o a
    ELSE "(" \o a \o " - " \o b \o ")"

\* mul = sub * c
CombinerMul(sub, c) ==
    IF sub = "0" THEN "0"
    ELSE IF c = "0" THEN "0"
    ELSE IF sub = "1" THEN c
    ELSE IF c = "1" THEN sub
    ELSE sub \o " × " \o c

\* add = mul + d
CombinerAdd(mul, d) ==
    IF mul = "0" THEN d
    ELSE IF d = "0" THEN mul
    ELSE mul \o " + " \o d

show_combiner_formula(a, b, c, d) ==
    CombinerAdd(CombinerMul(CombinerSub(a, b), c), d)

\* pa = p * a
BlenderPa(p, a) == IF a = "0" THEN "0" ELSE p \o " × " \o a

\* mb = m * b
BlenderMb(m, b) ==
    IF b = "0" THEN "0" ELSE IF b = "1" THEN m ELSE m \o " × " \o b

\* num = (pa + mb)
BlenderNum(pa, mb) ==
    IF pa = "0" THEN mb
    ELSE IF mb = "0" THEN pa
    ELSE "(" \o pa \o " + " \o mb \o ")"

\* den = (a + b)
BlenderDen(a, b) ==
    IF a = "0" THEN b
    ELSE IF b = "0" THEN a
    ELSE IF b = "One Minus A" THEN "1"
    ELSE IF a = "0" /\ b = "0" THEN "0"
    ELSE "(" \o a \o " + " \o b \o ")"

\* out = num / den
BlenderOut(num, den) ==
    IF den = "1" THEN num
    ELSE IF num = "0" THEN "0"
    ELSE IF num = den THEN "1"
    ELSE num \o " / " \o den

show_blender_formula(p, a, m, b) ==
    BlenderOut(BlenderNum(BlenderPa(p, a), BlenderMb(m, b)), BlenderDen(a, b))

-----------------------------------------------------------------------------
(* import_glr.py: setup_n64_material and its helpers.  The node graph is     *)
(* recorded by the nodes created, the formulas wired to them and the socket  *)
(* that input_map['Combined Color'] names after each step.                   *)

\* The operands of a formula, as a set; none for an absent formula.
Operands(f) == { f[n] : n \in DOMAIN f }

\* sources: every operand of the four formulas.
Sources(combiner1, combiner2, blender1, blender2) ==
    Operands(combiner1) \cup Operands(combiner2)
       \cup Operands(blender1) \cup Operands(blender2)

\* The input nodes make_rdp_input_nodes may create, in creation order, each
\* with the sources that ask for it and the input_map keys it supplies.
RdpInputNodes ==
    << [node |-> "Texture 0", keys |-> {"Texel 0 Color", "Texel 0 Alpha"}],
       [node |-> "Texture 1", keys |-> {"Texel 1 Color", "Texel 1 Alpha"}],
       [node |-> "Shade Color", keys |-> {"Shade Color", "Shade Alpha"}],
       [node |-> "Primitive Color",
        keys |-> {"Primitive Color", "Primitive Alpha"}],
       [node |-> "Env Color", keys |-> {"Env Color", "Env Alpha"}],
       [node |-> "Blend Color", keys |-> {"Blend Color", "Blend Alpha"}],
       [node |-> "Fog Color", keys |-> {"Fog Color", "Fog Alpha"}],
       [node |-> "Fog Level", keys |-> {"Fog Level"}],
       [node |-> "UNIMPLEMENTED Key Center", keys |-> {"Key Center"}],
       [node |-> "UNIMPLEMENTED Key Scale", keys |-> {"Key Scale"}],
       [node |-> "UNIMPLEMENTED LOD Fraction", keys |-> {"LOD Fraction"}],
       [node |-> "UNIMPLEMENTED Primitive LOD Fraction",
        keys |-> {"Primitive LOD Fraction"}],
       [node |-> "UNIMPLEMENTED Noise", keys |-> {"Noise"}],
       [node |-> "UNIMPLEMENTED Convert K4", keys |-> {"Convert K4"}],
       [node |-> "UNIMPLEMENTED Convert K5", keys |-> {"Convert K5"}] >>

\* The input nodes created for the sources.
InputNodesFor(sources) ==
    LET Wanted(c) == c.keys \cap sources # {}
    IN  SelectSeq(RdpInputNodes, Wanted)

\* The keys of the input_map make_rdp_input_nodes returns.
InputKeys(nodes) ==
    {"0", "1"} \cup UNION { nodes[n].keys : n \in DOMAIN nodes }

\* make_texture_node: the sampler extension and the math node of each axis.
WrapMathNode(wrap) ==
    IF wrap = "Repeat" THEN "WRAP"
    ELSE IF wrap = "Mirror" THEN "PINGPONG"
    ELSE None

make_texture_node(tex) ==
    IF tex.wrapS = tex.wrapT /\ tex.wrapS = "Repeat"
    THEN [extension |-> "REPEAT", math |-> FALSE, u |-> None, v |-> None]
    ELSE IF tex.wrapS = tex.wrapT /\ tex.wrapS = "Clamp"
    THEN [extension |-> "EXTEND", math |-> FALSE, u |-> None, v |-> None]
    ELSE [extension |-> "EXTEND", math |-> TRUE,
          u |-> WrapMathNode(tex.wrapS), v |-> WrapMathNode(tex.wrapT)]

\* The texture nodes of the material: one per texture unit that is a source.
TextureNodes(nodes, tex0, tex1) ==
    [ n \in { m \in DOMAIN nodes : nodes[m].node \in {"Texture 0", "Texture 1"} }
        |-> make_texture_node(IF nodes[n].node = "Texture 0"
                              THEN tex0 ELSE tex1) ]

\* The cycle-2 formula that stands for "does nothing".
NoOpCombiner2 ==
    << "0", "0", "0", "Combined Color", "0", "0", "0", "Combined Alpha" >>

\* Mutation of SkipNoOpCombiner2: the no-op second cycle is kept.
SkipNoOpCombiner2_Keep(combiner2) == combiner2

\* if combiner2 == ('0', ..., 'Combined Alpha'): combiner2 = None
SkipNoOpCombiner2(combiner2) ==
    IF combiner2 = NoOpCombiner2 THEN None ELSE combiner2

\* Mutation of is_simple_lerp: the framebuffer test on m is missing.
is_simple_lerp_NoM(blender) ==
    /\ blender[4] = "One Minus A"
    /\ blender[1] # "Framebuffer Color"

\* is_simple of make_simple_blender_lerp_node
is_simple_lerp(blender) ==
    /\ blender[4] = "One Minus A"
    /\ blender[1] # "Framebuffer Color"
    /\ blender[3] # "Framebuffer Color"

\* make_simple_blender_lerp_node: the MixRGB node (factor a, colours m and
\* p), or None.
make_simple_blender_lerp_node(blender) ==
    IF is_simple_lerp(blender)
    THEN [kind |-> "ShaderNodeMixRGB", fac |-> blender[2],
          in1 |-> blender[3], in2 |-> blender[1]]
    ELSE None

\* input_map['Combined Color'] after a blender step that made node or not.
CombinedAfter(before, node, socket) == IF node # None THEN socket ELSE before

\* The names looked up in input_map when a formula or lerp node is wired.
Wired(f) == Operands(f) \ {"ShaderNodeMixRGB"}

\* Mutation of last_blender: the first blender is taken.
last_blender_First(blender1, blender2) == blender1

\* last_blender = blender2 or blender1
last_blender(blender1, blender2) ==
    IF blender2 # None THEN blender2 ELSE blender1

\* Mutation of BlendMethod: the show_alpha option is not consulted.
BlendMethod_IgnoreOption(reads_fb, alpha) ==
    IF reads_fb THEN "HASHED" ELSE "OPAQUE"

\* mat.blend_method: 'OPAQUE', or 'HASHED' if the last blender reads the
\* framebuffer colour and show_alpha is set.
BlendMethod(reads_fb, alpha) ==
    IF reads_fb /\ alpha THEN "HASHED" ELSE "OPAQUE"

\* show_texture_info(tex)
show_texture_info(tex) ==
    << tex.crc, tex.filter,
       IF tex.wrapS = tex.wrapT THEN << tex.wrapS >>
       ELSE << tex.wrapS, "x", tex.wrapT >> >>

\* The custom properties of the material.
CustomProps(combiner1, combiner2, blender1, blender2, tex0, tex1) ==
    [ tex0 |-> show_texture_info(tex0),
      tex1 |-> show_texture_info(tex1),
      color1 |-> show_combiner_formula(combiner1[1], combiner1[2],
                                       combiner1[3], combiner1[4]),
      alpha1 |-> show_combiner_formula(combiner1[5], combiner1[6],
                                       combiner1[7], combiner1[8]),
      color2 |-> IF combiner2 # None
                 THEN show_combiner_formula(combiner2[1], combiner2[2],
                                            combiner2[3], combiner2[4])
                 ELSE "",
      alpha2 |-> IF combiner2 # None
                 THEN show_combiner_formula(combiner2[5], combiner2[6],
                                            combiner2[7], combiner2[8])
                 ELSE "",
      blender1 |-> show_blender_formula(blender1[1], blender1[2],
                                        blender1[3], blender1[4]),
      blender2 |-> IF blender2 # None
                   THEN show_blender_formula(blender2[1], blender2[2],
                                             blender2[3], blender2[4])
                   ELSE "" ]

\* The material once the graph is built: inputs are the input nodes,
\* combiner2 the second cycle after the no-op test, blnd1 and blnd2 the lerp
\* nodes (or None), reads_fb whether the last blender reads the framebuffer.
SetupResult(args, inputs, combiner2, blnd1, blnd2, cc_comb, reads_fb) ==
    [ shadow_method |-> "NONE",
      blend_method |-> BlendMethod(reads_fb, args.show_alpha),
      use_backface_culling |-> args.cull_backface,
      inputs |-> [n \in DOMAIN inputs |-> inputs[n].node],
      textures |-> TextureNodes(inputs, args.tex0, args.tex1),
      comb1 |-> args.combiner1,
      comb2 |-> combiner2,
      blnd1 |-> blnd1,
      blnd2 |-> blnd2,
      mixtr |-> reads_fb,
      cc_comb |-> cc_comb,
      cc_blnd1 |-> CombinedAfter(cc_comb, blnd1, "node_blnd1"),
      cc_blnd2 |-> CombinedAfter(CombinedAfter(cc_comb, blnd1, "node_blnd1"),
                                 blnd2, "node_blnd2"),
      output |-> IF reads_fb THEN "node_mixtr"
                 ELSE CombinedAfter(CombinedAfter(cc_comb, blnd1, "node_blnd1"),
                                    blnd2, "node_blnd2"),
      error |-> IF (Wired(args.combiner1) \cup Wired(combiner2)
                       \cup Wired(blnd1) \cup Wired(blnd2))
                      \subseteq (InputKeys(inputs)
                                    \cup {"Combined Color", "Combined Alpha"})
                THEN NoError ELSE "KeyError",
      props |-> CustomProps(args.combiner1, combiner2, args.blender1,
                            args.blender2, args.tex0, args.tex1) ]

\* The second combiner stage, then the blender steps.
SetupBlender(args, inputs, combiner2) ==
    SetupResult(args, inputs, combiner2,
                make_simple_blender_lerp_node(args.blender1),
                IF args.blender2 # None
                THEN make_simple_blender_lerp_node(args.blender2) ELSE None,
                IF combiner2 # None THEN "node_comb2" ELSE "node_comb1",
                "Framebuffer Color"
                   \in Operands(last_blender(args.blender1, args.blender2)))

setup_n64_material(args) ==
    SetupBlender(args,
                 InputNodesFor(Sources(args.combiner1, args.combiner2,
                                       args.blender1, args.blender2)),
                 SkipNoOpCombiner2(args.combiner2))

-----------------------------------------------------------------------------
(* create_material followed by setup_n64_material, called on their own: the  *)
(* node graph of a material key.                                             *)

\* The place of each blender sub-field in the other mode: <<offset, width>>.
BlenderLayout ==
    [ b_2 |-> << 16, 2 >>, b_1 |-> << 18, 2 >>, m_2 |-> << 20, 2 >>,
      m_1 |-> << 22, 2 >>, a_2 |-> << 24, 2 >>, a_1 |-> << 26, 2 >>,
      p_2 |-> << 28, 2 >>, p_1 |-> << 30, 2 >> ]

\* The other-mode bits of blender formulas pamb1 and pamb2, each a tuple
\* <<p, a, m, b>> of sub-field values.
BlenderBits(pamb1, pamb2) ==
    PlaceBits(pamb1[1], 30, 2) \cup PlaceBits(pamb1[2], 26, 2)
       \cup PlaceBits(pamb1[3], 22, 2) \cup PlaceBits(pamb1[4], 18, 2)
       \cup PlaceBits(pamb2[1], 28, 2) \cup PlaceBits(pamb2[2], 24, 2)
       \cup PlaceBits(pamb2[3], 20, 2) \cup PlaceBits(pamb2[4], 16, 2)

\* Blender formulas: plain lerp; p or m the framebuffer colour with b One
\* Minus A; m the framebuffer colour with b the framebuffer alpha; b the
\* framebuffer alpha alone; b the constant 1; fog (Fog Color, Shade Alpha).
SetupBlenders ==
    { << 0, 0, 0, 0 >>, << 1, 0, 0, 0 >>, << 0, 0, 1, 0 >>, << 0, 0, 1, 1 >>,
      << 0, 0, 2, 1 >>, << 0, 0, 0, 2 >>, << 3, 2, 0, 0 >> }

\* One-cycle and two-cycle other modes over the blender formulas.
SetupOtherModes ==
    { cyc \cup BlenderBits(b1, b2) :
      cyc \in { {}, {52} }, b1 \in SetupBlenders, b2 \in SetupBlenders }

\* The muxes of MaterialMuxes, and one that samples both textures and reads
\* an unimplemented source (Noise).
SetupMuxes ==
    MaterialMuxes \cup
    { BuildMux([[f \in FieldNames |-> 0] EXCEPT
                   !.a_rgb1 = 1, !.b_rgb1 = 7, !.c_rgb1 = 4, !.d_rgb1 = 7,
                   !.a_a1 = 1, !.b_a1 = 7, !.c_a1 = 4, !.d_a1 = 7,
                   !.a_rgb2 = 7, !.b_rgb2 = 2, !.c_rgb2 = 9, !.d_rgb2 = 0]) }

\* Wrap enums (S, T) of texture 0.
SetupWraps == { << 0, 0 >>, << 2, 2 >>, << 1, 1 >>, << 0, 2 >> }

InitSetup ==
    /\ Idle
    /\ pc = "call"
    /\ \E mux \in SetupMuxes, om \in SetupOtherModes, gm \in { {}, {16} },
          wr \in SetupWraps, alpha \in BOOLEAN :
          arg = [matinfo |-> << mux, om, gm, 43981, wr[1], wr[2], 0, 1, 0 >>,
                 microcode |-> 2, display_culling |-> TRUE,
                 show_alpha |-> alpha]
    /\ ret = None

\* create_material found no material of that name: it makes one and sets it
\* up.
CallSetup ==
    /\ pc = "returned"
    /\ ret' = [args |-> ret, mat |-> setup_n64_material(ret)]
    /\ pc' = "setup"
    /\ UNCHANGED << importVars, arg >>

SpecSetup == InitSetup /\ [][CallCreateMaterial \/ CallSetup]_vars

\* C11: in two-cycle mode, when the cycle-2 combiner is ('0', '0', '0',
\* 'Combined Color', '0', '0', '0', 'Combined Alpha'), setup_n64_material
\* realises no second combiner stage (the combined colour after the
\* combiners is the output of the first stage) and the description of the
\* material carries no cycle-2 combiner.
C11_NoOpSecondCycle ==
    (/\ pc = "setup"
     /\ two_cycle_mode(arg.matinfo[2])
     /\ ret.args.combiner2 = << "0", "0", "0", "Combined Color",
                                "0", "0", "0", "Combined Alpha" >>)
    => /\ ret.mat.comb2 = None
       /\ ret.mat.cc_comb = "node_comb1"
       /\ ret.mat.props.color2 = ""
       /\ ret.mat.props.alpha2 = ""

\* A two-cycle material with the no-op second cycle was set up with one
\* combiner stage, while its second blender cycle is still present.
C11_Witness ==
    /\ pc = "setup"
    /\ CycleBits = 1
    /\ ret.args.combiner2 = NoOpCombiner2
    /\ ret.args.blender2 # None
    /\ ret.mat.comb2 = None
    /\ ret.mat.props.color2 = ""
    /\ ret.mat.props.blender2 # ""

-----------------------------------------------------------------------------
(* shader.py: N64Shader.make_texcoord_wrapper.  A math node is a record of   *)
(* its operation and the values put in its sockets; the chain of an axis is  *)
(* the sequence of its nodes in creation order, which runs from the texture  *)
(* node back towards the UV map, so data flows from the last node of a chain *)
(* to its first.  Coordinates are integers.                                  *)

\* extensions[i] left at None
NoExtension == "None"

\* Mutation of NativeExtension: a clamp at the image edge is native only
\* with no wrap.
NativeExtension_EdgeClampNoWrap(clamp, wrap, mirror) ==
    IF clamp = 1 /\ wrap = 0 THEN "EXTEND"
    ELSE IF clamp = 0 /\ wrap = 1 THEN (IF mirror THEN "MIRROR" ELSE "REPEAT")
    ELSE IF clamp = 0 /\ wrap = 0 THEN "EXTEND"
    ELSE NoExtension

\* The classic texture mode of one axis, if its edges line up with the
\* texture.
NativeExtension(clamp, wrap, mirror) ==
    IF clamp = 1 /\ (wrap = 0 \/ wrap >= 1) THEN "EXTEND"
    ELSE IF clamp = 0 /\ wrap = 1 THEN (IF mirror THEN "MIRROR" ELSE "REPEAT")
    ELSE IF clamp = 0 /\ wrap = 0 THEN "EXTEND"
    ELSE NoExtension

\* The 1 - x node of the V direction.
FlipNode == [op |-> "SUBTRACT", in0 |-> 1]

\* The Ping Pong or Wrap node of an axis with wrap > 0.
WrapNode(wrap, mirror) ==
    IF mirror THEN [op |-> "PINGPONG", scale |-> wrap]
    ELSE [op |-> "WRAP", min |-> 0, max |-> wrap]

\* Mutation of ClampNode: the node keeps its default range [0, 1].
ClampNode_UnitRange(clamp) == [op |-> "CLAMP", min |-> 0, max |-> 1]

\* The Clamp node of an axis with clamp > 0.
ClampNode(clamp) == [op |-> "CLAMP", min |-> 0, max |-> clamp]

\* Mutation of AxisChain: the clamp node is created before the wrap node.
AxisChain_ClampCreatedFirst(axis, clamp, wrap, mirror) ==
    (IF axis = 1 THEN << FlipNode >> ELSE << >>)
       \o (IF clamp > 0 THEN << ClampNode(clamp) >> ELSE << >>)
       \o (IF wrap > 0 THEN << WrapNode(wrap, mirror) >> ELSE << >>)
       \o (IF axis = 1 THEN << FlipNode >> ELSE << >>)

\* The math nodes of an axis (0 = S, 1 = T), in creation order: each new node's output is
\* connected to the input socket of the one created before it.
AxisChain(axis, clamp, wrap, mirror) ==
    (IF axis = 1 THEN << FlipNode >> ELSE << >>)
       \o (IF wrap > 0 THEN << WrapNode(wrap, mirror) >> ELSE << >>)
       \o (IF clamp > 0 THEN << ClampNode(clamp) >> ELSE << >>)
       \o (IF axis = 1 THEN << FlipNode >> ELSE << >>)

\* Mutation of UseNative: one native axis is enough.
UseNative_EitherAxis(ext0, ext1) == ext0 # NoExtension \/ ext1 # NoExtension

\* extensions[0] == extensions[1] and extensions[0] != None
UseNative(ext0, ext1) == ext0 = ext1 /\ ext0 # NoExtension

\* The wrapper for the resolved extensions of the two axes.
TexcoordWrapper(tex, ext0, ext1) ==
    IF UseNative(ext0, ext1)
    THEN [extensions |-> << ext0, ext1 >>, extension |-> ext1,
          nodes |-> << >>, chains |-> << >>]
    ELSE [extensions |-> << ext0, ext1 >>, extension |-> "EXTEND",
          nodes |-> << "NodeFrame", "ShaderNodeCombineXYZ",
                       "ShaderNodeSeparateXYZ" >>,
          chains |-> << AxisChain(0, tex.clampS, tex.wrapS, tex.mirrorS),
                        AxisChain(1, tex.clampT, tex.wrapT, tex.mirrorT) >>]

make_texcoord_wrapper(tex) ==
    TexcoordWrapper(tex,
                    NativeExtension(tex.clampS, tex.wrapS, tex.mirrorS),
                    NativeExtension(tex.clampT, tex.wrapT, tex.mirrorT))

\* What the host's math nodes compute (the sockets named as the source
\* names them): Wrap to [min, max), Ping Pong with a scale, Clamp.
Abs(x) == IF x < 0 THEN -x ELSE x

Max(a, b) == IF a > b THEN a ELSE b

EvalNode(node, x) ==
    IF node.op = "SUBTRACT" THEN node.in0 - x
    ELSE IF node.op = "WRAP"
    THEN node.min + ((x - node.min) % (node.max - node.min))
    ELSE IF node.op = "PINGPONG"
    THEN Abs(((x - node.scale) % (2 * node.scale)) - node.scale)
    ELSE Min(Max(x, node.min), node.max)

\* The value a chain delivers for coordinate x: x enters the node created
\* last and leaves the node created first.
RECURSIVE EvalChain(_, _)
EvalChain(chain, x) ==
    IF chain = << >> THEN x
    ELSE EvalNode(Head(chain), EvalChain(Tail(chain), x))

-----------------------------------------------------------------------------
(* make_texcoord_wrapper called on its own, on texture descriptors with      *)
(* clamp and wrap edges, and the wrapper applied to a coordinate.            *)

\* Largest coordinate fed to a wrapper.
MaxCoord == 15

\* Clamp and wrap edges of an axis: none, at the texture edge, further out,
\* and a negative value.
ClampEdges == {-1, 0, 1, 2, 3}

WrapEdges == {-1, 0, 1, 2, 8}

AxisSettings ==
    { << c, w, m >> : c \in ClampEdges, w \in WrapEdges, m \in BOOLEAN }

InitWrap ==
    /\ Idle
    /\ pc = "call"
    /\ \E s \in AxisSettings, t \in AxisSettings, x \in (-3)..MaxCoord :
          arg = [tex |-> [clampS |-> s[1], wrapS |-> s[2], mirrorS |-> s[3],
                          clampT |-> t[1], wrapT |-> t[2], mirrorT |-> t[3]],
                 coord |-> x]
    /\ ret = None

\* The coordinates the texture node receives for the UV (x, 1 - x): V is
\* stored top-down, so 1 - x is x in the bottom-up space of the edges.
WrappedUV(wrapper, x) ==
    IF wrapper.chains = << >> THEN [u |-> x, v |-> 1 - x]
    ELSE [u |-> EvalChain(wrapper.chains[1], x),
          v |-> EvalChain(wrapper.chains[2], 1 - x)]

ApplyWrapper(wrapper, x) ==
    [wrapper |-> wrapper, uv |-> WrappedUV(wrapper, x)]

CallTexcoordWrapper ==
    /\ pc = "call"
    /\ ret' = ApplyWrapper(make_texcoord_wrapper(arg.tex), arg.coord)
    /\ pc' = "returned"
    /\ UNCHANGED << importVars, arg >>

SpecWrap == InitWrap /\ [][CallTexcoordWrapper]_vars

\* The sequence the claim C12 gives for inputs 0..15.
C12_ClaimedSequence == << 0, 1, 2, 3, 3, 2, 1, 0, 0, 1, 2, 3, 3, 3, 3, 3 >>

\* C12 as stated: with clamp = 3, wrap = 8 and no mirror the pipeline of an
\* axis maps the inputs 0, 1, ..., 15 to 0,1,2,3,3,2,1,0,0,1,2,3,3,3,3,3.
C12_Original ==
    (/\ pc = "returned"
     /\ arg.tex.clampS = 3 /\ arg.tex.wrapS = 8 /\ ~arg.tex.mirrorS
     /\ arg.coord \in 0..15)
    => ret.uv.u = C12_ClaimedSequence[arg.coord + 1]

\* What the pipeline delivers for inputs 0..15.
C12_ClampedSequence == << 0, 1, 2, 3, 3, 3, 3, 3, 3, 3, 3, 3, 3, 3, 3, 3 >>

\* C12 (amended): with clamp = 3, wrap = 8 and no mirror the pipeline of an
\* axis maps the inputs 0, 1, ..., 15 to 0,1,2,3,3,3,3,3,3,3,3,3,3,3,3,3: the
\* coordinate is clamped to [0, 3] before the wrap, which leaves it as it is
\* (for V, in the bottom-up space: 1 - x goes to 1 - that value).
C12_WrapExample ==
    (pc = "returned" /\ arg.coord \in 0..15) =>
       /\ (arg.tex.clampS = 3 /\ arg.tex.wrapS = 8 /\ ~arg.tex.mirrorS)
             => ret.uv.u = C12_ClampedSequence[arg.coord + 1]
       /\ (arg.tex.clampT = 3 /\ arg.tex.wrapT = 8 /\ ~arg.tex.mirrorT)
             => ret.uv.v = 1 - C12_ClampedSequence[arg.coord + 1]

\* Input 8 of the example came out as 3 on both axes.
C12_Witness ==
    /\ pc = "returned"
    /\ arg.tex.clampS = 3 /\ arg.tex.wrapS = 8 /\ ~arg.tex.mirrorS
    /\ arg.tex.clampT = 3 /\ arg.tex.wrapT = 8 /\ ~arg.tex.mirrorT
    /\ arg.coord = 8
    /\ ret.uv.u = 3
    /\ ret.uv.v = -2

\* A coordinate wrapped with period wrap (ping-pong if mirrored).
C13_Wrapped(x, wrap, mirror) ==
    IF mirror THEN Abs(((x - wrap) % (2 * wrap)) - wrap) ELSE x % wrap

\* A coordinate clamped to [0, clamp].
C13_Clamped(x, clamp) == IF x < 0 THEN 0 ELSE IF x > clamp THEN clamp ELSE x

\* C13 as stated: on an axis of the explicit pipeline with wrap > 0 and
\* clamp > 0 the coordinate is first wrapped and the wrapped value is then
\* clamped to [0, clamp].
C13_Original ==
    (/\ pc = "returned"
     /\ ret.wrapper.chains # << >>
     /\ arg.tex.wrapS > 0 /\ arg.tex.clampS > 0)
    => ret.uv.u = C13_Clamped(C13_Wrapped(arg.coord, arg.tex.wrapS,
                                          arg.tex.mirrorS),
                              arg.tex.clampS)

\* C13 (amended): on an axis of the explicit pipeline with wrap > 0 and
\* clamp > 0 the coordinate is first clamped to [0, clamp] and the clamped
\* value is then wrapped (modulo, or ping-pong if mirrored, with the wrap
\* edge as period): the clamp node feeds the wrap node, which feeds the
\* texture (for V, between the two 1 - x nodes).
C13_ClampThenWrap ==
    (pc = "returned" /\ ret.wrapper.chains # << >>) =>
       /\ (arg.tex.wrapS > 0 /\ arg.tex.clampS > 0) =>
             /\ Len(ret.wrapper.chains[1]) = 2
             /\ ret.wrapper.chains[1][1].op \in {"WRAP", "PINGPONG"}
             /\ ret.wrapper.chains[1][2].op = "CLAMP"
             /\ ret.uv.u = C13_Wrapped(C13_Clamped(arg.coord, arg.tex.clampS),
                                       arg.tex.wrapS, arg.tex.mirrorS)
       /\ (arg.tex.wrapT > 0 /\ arg.tex.clampT > 0) =>
             /\ Len(ret.wrapper.chains[2]) = 4
             /\ ret.wrapper.chains[2][2].op \in {"WRAP", "PINGPONG"}
             /\ ret.wrapper.chains[2][3].op = "CLAMP"
             /\ ret.uv.v = 1 - C13_Wrapped(C13_Clamped(arg.coord,
                                                       arg.tex.clampT),
                                           arg.tex.wrapT, arg.tex.mirrorT)

\* Clamp 3 and wrap 2 on S: coordinate 4 is clamped to 3 and wrapped to 1,
\* where wrapping first would give 0.
C13_Witness ==
    /\ pc = "returned"
    /\ arg.tex.clampS = 3 /\ arg.tex.wrapS = 2 /\ ~arg.tex.mirrorS
    /\ arg.coord = 4
    /\ ret.wrapper.chains # << >>
    /\ ret.uv.u = 1

\* The native mode the claim C19 gives an axis.
C19_Claimed(clamp, wrap, mirror) ==
    CASE clamp = 1 /\ (wrap = 0 \/ wrap >= 1) -> "EXTEND"
      [] clamp = 0 /\ wrap = 1 /\ ~mirror -> "REPEAT"
      [] clamp = 0 /\ wrap = 1 /\ mirror -> "MIRROR"
      [] clamp = 0 /\ wrap = 0 -> "EXTEND"
      [] OTHER -> "None"

\* C19: make_texcoord_wrapper resolves an axis with clamp = 1 and wrap = 0
\* or wrap >= 1 to Extend, one with clamp = 0 and wrap = 1 to Repeat (Mirror
\* if the mirror flag is set), one with clamp = 0 and wrap = 0 to Extend,
\* and every other axis to no native mode.
C19_NativeResolution ==
    pc = "returned" =>
       /\ ret.wrapper.extensions[1]
             = C19_Claimed(arg.tex.clampS, arg.tex.wrapS, arg.tex.mirrorS)
       /\ ret.wrapper.extensions[2]
             = C19_Claimed(arg.tex.clampT, arg.tex.wrapT, arg.tex.mirrorT)

\* S wraps at the texture edge with the mirror flag and resolved to Mirror;
\* T clamps at the edge with a wrap further out and resolved to Extend.
C19_Witness ==
    /\ pc = "returned"
    /\ arg.tex.clampS = 0 /\ arg.tex.wrapS = 1 /\ arg.tex.mirrorS
    /\ arg.tex.clampT = 1 /\ arg.tex.wrapT = 8
    /\ ret.wrapper.extensions = << "MIRROR", "EXTEND" >>

\* Both axes of the call resolve to the same native mode.
C20_SameNativeMode ==
    /\ C19_Claimed(arg.tex.clampS, arg.tex.wrapS, arg.tex.mirrorS)
          = C19_Claimed(arg.tex.clampT, arg.tex.wrapT, arg.tex.mirrorT)
    /\ C19_Claimed(arg.tex.clampS, arg.tex.wrapS, arg.tex.mirrorS) # "None"

\* The nodes an axis needs: a wrap node iff wrap > 0, a clamp node iff
\* clamp > 0.
C20_AxisMath(chain, clamp, wrap) ==
    /\ (wrap > 0) <=> (\E n \in DOMAIN chain : chain[n].op \in {"WRAP", "PINGPONG"})
    /\ (clamp > 0) <=> (\E n \in DOMAIN chain : chain[n].op = "CLAMP")

\* C20: make_texcoord_wrapper sets the sampler's extension alone, with no
\* coordinate node, iff both axes resolve to the same native mode; when they
\* resolve to different modes or an axis has none, the sampler is set to
\* Extend and the explicit pipeline (Separate, per-axis math, Combine) is
\* built for both axes.
C20_SingleSamplerSetting ==
    pc = "returned" =>
       /\ (ret.wrapper.nodes = << >> /\ ret.wrapper.chains = << >>)
             <=> C20_SameNativeMode
       /\ C20_SameNativeMode =>
             /\ ret.wrapper.extension
                   = C19_Claimed(arg.tex.clampS, arg.tex.wrapS, arg.tex.mirrorS)
             /\ ret.uv = [u |-> arg.coord, v |-> 1 - arg.coord]
       /\ ~C20_SameNativeMode =>
             /\ ret.wrapper.extension = "EXTEND"
             /\ {"ShaderNodeCombineXYZ", "ShaderNodeSeparateXYZ"}
                   \subseteq { ret.wrapper.nodes[n] : n \in DOMAIN ret.wrapper.nodes }
             /\ DOMAIN ret.wrapper.chains = {1, 2}
             /\ C20_AxisMath(ret.wrapper.chains[1], arg.tex.clampS,
                             arg.tex.wrapS)
             /\ C20_AxisMath(ret.wrapper.chains[2], arg.tex.clampT,
                             arg.tex.wrapT)

\* S resolves to Repeat and T to Extend: the sampler was set to Extend and
\* both axes got explicit math (S a wrap node, T a clamp node).
C20_Witness ==
    /\ pc = "returned"
    /\ ret.wrapper.extensions = << "REPEAT", "EXTEND" >>
    /\ arg.tex.clampT = 1
    /\ ret.wrapper.extension = "EXTEND"
    /\ ret.wrapper.chains[1] = << [op |-> "WRAP", min |-> 0, max |-> 1] >>
    /\ Len(ret.wrapper.chains[2]) >= 3

-----------------------------------------------------------------------------
(* shader.py: N64Shader.  self.vars maps a source name to a constant         *)
(* [const |-> n] or to the output socket of a node [node |-> ..., out |->    *)
(* ...].  The shader under construction is the record of self.vars, the      *)
(* nodes created so far (each tagged with the step that made it),            *)
(* self.use_alpha, and the KeyError a lookup of self.vars raised, if any;    *)
(* after an error nothing more is done.                                      *)

ConstValue(n) == [const |-> n]

SocketOf(node, out) == [node |-> node, out |-> out]

\* N64Shader.__init__
NewShader ==
    [vars |-> ("0" :> ConstValue(0)) @@ ("1" :> ConstValue(1)),
     nodes |-> << >>, use_alpha |-> FALSE, err |-> NoError, mat |-> None]

\* The input nodes make_inputs knows, each with the variables it supplies
\* and the output socket of each.
ShaderInputNodes ==
    { [node |-> "Texture 0",
       outs |-> ("Texel 0 Color" :> "Color") @@ ("Texel 0 Alpha" :> "Alpha")],
      [node |-> "Texture 1",
       outs |-> ("Texel 1 Color" :> "Color") @@ ("Texel 1 Alpha" :> "Alpha")],
      [node |-> "Shade Color",
       outs |-> ("Shade Color" :> "Color") @@ ("Shade Alpha" :> "Alpha")],
      [node |-> "Primitive Color",
       outs |-> ("Primitive Color" :> "Color")
                   @@ ("Primitive Alpha" :> "Alpha")],
      [node |-> "Env Color",
       outs |-> ("Env Color" :> "Color") @@ ("Env Alpha" :> "Alpha")],
      [node |-> "Blend Color",
       outs |-> ("Blend Color" :> "Color") @@ ("Blend Alpha" :> "Alpha")],
      [node |-> "Fog Color",
       outs |-> ("Fog Color" :> "Color") @@ ("Fog Alpha" :> "Alpha")],
      [node |-> "Fog Level", outs |-> ("Fog Level" :> "Fac")],
      [node |-> "Primitive LOD Fraction",
       outs |-> ("Primitive LOD Fraction" :> "Fac")],
      [node |-> "LOD Fraction", outs |-> ("LOD Fraction" :> "Value")],
      [node |-> "Key Center (UNIMPLEMENTED)",
       outs |-> ("Key Center" :> "Color")],
      [node |-> "Key Scale (UNIMPLEMENTED)",
       outs |-> ("Key Scale" :> "Color")],
      [node |-> "Noise (UNIMPLEMENTED)", outs |-> ("Noise" :> "Color")],
      [node |-> "Convert K4 (UNIMPLEMENTED)",
       outs |-> ("Convert K4" :> "Color")],
      [node |-> "Convert K5 (UNIMPLEMENTED)",
       outs |-> ("Convert K5" :> "Color")] }

\* The variables some input node supplies.
InputVars == UNION { DOMAIN e.outs : e \in ShaderInputNodes }

\* The input node that supplies var.
InputNodeOf(var) == CHOOSE e \in ShaderInputNodes : var \in DOMAIN e.outs

\* The shader with the input node e added and its variables set.
AddInputNode(sh, e) ==
    [sh EXCEPT
       !.vars = [v \in DOMAIN e.outs |-> SocketOf(e.node, e.outs[v])] @@ @,
       !.nodes = Append(@, [step |-> "inputs", node |-> e.node])]

\* make_inputs: one node per input the formulas name, in the order of the
\* first use.
RECURSIVE make_inputs(_, _)
make_inputs(sh, input_vars) ==
    IF input_vars = << >> THEN sh
    ELSE IF Head(input_vars) \in DOMAIN sh.vars
            \/ Head(input_vars) \notin InputVars
    THEN make_inputs(sh, Tail(input_vars))
    ELSE make_inputs(AddInputNode(sh, InputNodeOf(Head(input_vars))),
                     Tail(input_vars))

\* isinstance(v, bpy.types.NodeSocket)
IsSocket(v) == "node" \in DOMAIN v

\* The place in names of the first name self.vars lacks, or 0.
FirstMissing(known, names) ==
    IF \A n \in DOMAIN names : names[n] \in DOMAIN known THEN 0
    ELSE CHOOSE n \in DOMAIN names :
            /\ names[n] \notin DOMAIN known
            /\ \A m \in 1..(n - 1) : names[m] \in DOMAIN known

\* The shader after a failed lookup in self.vars.
KeyError(sh) == [sh EXCEPT !.err = "KeyError"]

\* The early out of make_color_combiner for vars[d] = value: a socket is
\* taken as it is, a constant gets an RGB node to supply it.
ColorPassThrough(sh, step, value) ==
    IF IsSocket(value)
    THEN [sh EXCEPT !.vars = ("Combined Color" :> value) @@ @]
    ELSE [sh EXCEPT
            !.nodes = Append(@, [step |-> step, node |-> "ShaderNodeRGB",
                                 value |-> value]),
            !.vars = ("Combined Color" :> SocketOf(step \o ".RGB", "Color"))
                        @@ @]

\* The frame and the SUBTRACT, MULTIPLY and ADD nodes of (a - b) * c + d;
\* missing is the place of the first operand self.vars lacks (0 if none):
\* the nodes made before that connect exist, the rest do not.
ColorFormulaNodes(step, comb, missing) ==
    << [step |-> step, node |-> "NodeFrame",
        label |-> show_combiner_formula(comb[1], comb[2], comb[3], comb[4])],
       [step |-> step, node |-> "ShaderNodeMix", op |-> "SUBTRACT",
        in1 |-> comb[1], in2 |-> comb[2]] >>
    \o (IF missing \in {1, 2} THEN << >>
        ELSE << [step |-> step, node |-> "ShaderNodeMix", op |-> "MULTIPLY",
                 in1 |-> "SUBTRACT", in2 |-> comb[3]] >>)
    \o (IF missing \in {1, 2, 3} THEN << >>
        ELSE << [step |-> step, node |-> "ShaderNodeMix", op |-> "ADD",
                 in1 |-> "MULTIPLY", in2 |-> comb[4]] >>)

ColorFormula(sh, step, comb, missing) ==
    IF missing # 0
    THEN KeyError([sh EXCEPT
                     !.nodes = @ \o ColorFormulaNodes(step, comb, missing)])
    ELSE [sh EXCEPT
            !.nodes = @ \o ColorFormulaNodes(step, comb, 0),
            !.vars = ("Combined Color" :> SocketOf(step \o ".ADD", "Result"))
                        @@ @]

\* Mutation of make_color_combiner: no early out for c = '0'.
make_color_combiner_NoEarlyOut(sh, step, comb) ==
    IF sh.err # NoError THEN sh
    ELSE ColorFormula(sh, step, comb, FirstMissing(sh.vars, comb))

\* make_color_combiner for the formula comb = (a, b, c, d)
make_color_combiner(sh, step, comb) ==
    IF sh.err # NoError THEN sh
    ELSE IF comb[3] = "0"
    THEN IF comb[4] \in DOMAIN sh.vars
         THEN ColorPassThrough(sh, step, sh.vars[comb[4]])
         ELSE KeyError(sh)
    ELSE ColorFormula(sh, step, comb, FirstMissing(sh.vars, comb))

\* The frame and the SUBTRACT and MULTIPLY_ADD nodes of the alpha formula.
AlphaFormulaNodes(step, comb, missing) ==
    << [step |-> step, node |-> "NodeFrame",
        label |-> show_combiner_formula(comb[1], comb[2], comb[3], comb[4])],
       [step |-> step, node |-> "ShaderNodeMath", op |-> "SUBTRACT",
        in1 |-> comb[1], in2 |-> comb[2]] >>
    \o (IF missing \in {1, 2} THEN << >>
        ELSE << [step |-> step, node |-> "ShaderNodeMath",
                 op |-> "MULTIPLY_ADD", in1 |-> "SUBTRACT",
                 in2 |-> comb[3], in3 |-> comb[4]] >>)

AlphaFormula(sh, step, comb, missing) ==
    IF missing # 0
    THEN KeyError([sh EXCEPT
                     !.nodes = @ \o AlphaFormulaNodes(step, comb, missing)])
    ELSE [sh EXCEPT
            !.nodes = @ \o AlphaFormulaNodes(step, comb, 0),
            !.vars = ("Combined Alpha"
                         :> SocketOf(step \o ".MULTIPLY_ADD", "Value")) @@ @]

\* make_alpha_combiner for the formula comb = (a, b, c, d)
make_alpha_combiner(sh, step, comb) ==
    IF sh.err # NoError THEN sh
    ELSE IF comb[3] = "0"
    THEN IF comb[4] \in DOMAIN sh.vars
         THEN [sh EXCEPT !.vars = ("Combined Alpha" :> sh.vars[comb[4]]) @@ @]
         ELSE KeyError(sh)
    ELSE AlphaFormula(sh, step, comb, FirstMissing(sh.vars, comb))

\* Mutation of is_simple_mix: b is not looked at.
is_simple_mix_AnyB(blender) ==
    /\ blender[1] \notin {"Framebuffer Color", "Framebuffer Alpha"}
    /\ blender[3] \notin {"Framebuffer Color", "Framebuffer Alpha"}

\* is_simple of make_simple_blender_mix_node, for blender = (p, a, m, b)
is_simple_mix(blender) ==
    /\ blender[4] = "One Minus A"
    /\ blender[1] \notin {"Framebuffer Color", "Framebuffer Alpha"}
    /\ blender[3] \notin {"Framebuffer Color", "Framebuffer Alpha"}

\* The MIX node of a simple blender (factor a, colours m then p), with its
\* Fog frame when a is the fog level.
MixNodes(step, blender) ==
    << [step |-> step, node |-> "ShaderNodeMix", op |-> "MIX",
        fac |-> blender[2], in1 |-> blender[3], in2 |-> blender[1]] >>
    \o (IF blender[2] = "Fog Level"
        THEN << [step |-> step, node |-> "NodeFrame", label |-> "Fog"] >>
        ELSE << >>)

\* make_simple_blender_mix_node
make_simple_blender_mix_node(sh, step, blender) ==
    IF ~is_simple_mix(blender) THEN sh
    ELSE IF {blender[2], blender[3], blender[1]} \subseteq DOMAIN sh.vars
    THEN [sh EXCEPT
            !.nodes = @ \o MixNodes(step, blender),
            !.vars = ("Combined Color" :> SocketOf(step \o ".MIX", "Result"))
                        @@ @]
    ELSE KeyError([sh EXCEPT
                     !.nodes = Append(@, [step |-> step,
                                          node |-> "ShaderNodeMix",
                                          op |-> "MIX"])])

\* Mutation of ReadsFramebuffer: the combined alpha is not looked at.
ReadsFramebuffer_AnyAlpha(sh, blender) ==
    "Framebuffer Color" \in Operands(blender)

\* if 'Framebuffer Color' in blender: if self.vars['Combined Alpha'] != 1
ReadsFramebuffer(sh, blender) ==
    /\ "Framebuffer Color" \in Operands(blender)
    /\ sh.vars["Combined Alpha"] # ConstValue(1)

\* One round of the loop of make_blenders.
BlenderRound(sh, blender) ==
    IF sh.err = NoError /\ ReadsFramebuffer(sh, blender)
    THEN [sh EXCEPT !.use_alpha = TRUE]
    ELSE sh

\* make_output
OutputNodes(use_alpha) ==
    (IF use_alpha
     THEN << [step |-> "output", node |-> "ShaderNodeMixShader",
              fac |-> "Combined Alpha", in1 |-> "ShaderNodeBsdfTransparent",
              in2 |-> "Combined Color"],
             [step |-> "output", node |-> "ShaderNodeBsdfTransparent"] >>
     ELSE << >>)
    \o << [step |-> "output", node |-> "ShaderNodeOutputMaterial",
           surface |-> IF use_alpha THEN "ShaderNodeMixShader"
                       ELSE "Combined Color"] >>

\* Mutation of ShaderBlendMethod: use_alpha alone decides.
ShaderBlendMethod_IgnoreOption(use_alpha, alpha, is_translucent) ==
    IF use_alpha THEN (IF is_translucent THEN "BLEND" ELSE "HASHED")
    ELSE "OPAQUE"

\* mat.blend_method
ShaderBlendMethod(use_alpha, alpha, is_translucent) ==
    IF use_alpha /\ alpha
    THEN (IF is_translucent THEN "BLEND" ELSE "HASHED")
    ELSE "OPAQUE"

\* show_texture_info of shader.py
shader_show_texture_info(tex) == << tex.crc, tex.filter >>

\* load_image: no image for CRC 0, else the PNG named after the CRC.
load_image(crc) == IF crc = 0 THEN None ELSE << crc, ".png" >>

\* make_texture_unit: the Image Texture node with its wrapper and UV map.
make_texture_unit(tex) ==
    [image |-> load_image(tex.crc), interpolation |-> tex.filter,
     wrapper |-> make_texcoord_wrapper(tex), uv_map |-> tex.uv_map]

\* The texture units of the nodes created by make_inputs.
TextureUnits(nodes, tex0, tex1) ==
    [ n \in { m \in DOMAIN nodes : nodes[m].node \in {"Texture 0", "Texture 1"} }
        |-> make_texture_unit(IF nodes[n].node = "Texture 0"
                              THEN tex0 ELSE tex1) ]

\* The material-level properties and the custom properties set by setup.
ShaderMaterial(sh, a) ==
    [ shadow_method |-> "NONE",
      use_backface_culling |-> a.cull_backfacing,
      blend_method |-> ShaderBlendMethod(sh.use_alpha, a.show_alpha,
                                         a.is_translucent),
      textures |-> TextureUnits(sh.nodes, a.tex0, a.tex1),
      props |->
        [ tex0 |-> IF a.tex0.crc # 0
                   THEN shader_show_texture_info(a.tex0) ELSE << >>,
          tex1 |-> IF a.tex1.crc # 0
                   THEN shader_show_texture_info(a.tex1) ELSE << >>,
          color1 |-> show_combiner_formula(a.combiner1[1], a.combiner1[2],
                                           a.combiner1[3], a.combiner1[4]),
          alpha1 |-> show_combiner_formula(a.combiner1[5], a.combiner1[6],
                                           a.combiner1[7], a.combiner1[8]),
          color2 |-> IF a.combiner2 # None
                     THEN show_combiner_formula(a.combiner2[1], a.combiner2[2],
                                                a.combiner2[3], a.combiner2[4])
                     ELSE "",
          alpha2 |-> IF a.combiner2 # None
                     THEN show_combiner_formula(a.combiner2[5], a.combiner2[6],
                                                a.combiner2[7], a.combiner2[8])
                     ELSE "",
          blender1 |-> show_blender_formula(a.blender1[1], a.blender1[2],
                                            a.blender1[3], a.blender1[4]),
          blender2 |-> IF a.blender2 # None
                       THEN show_blender_formula(a.blender2[1], a.blender2[2],
                                                 a.blender2[3], a.blender2[4])
                       ELSE "" ] ]

-----------------------------------------------------------------------------
(* The two shader builders on the formulas create_material decodes from a   *)
(* combiner mux, an other mode and a geometry mode: N64Shader.setup of      *)
(* shader.py, run step by step, and setup_n64_material of import_glr.py.    *)

\* The mux with colour formulas r1, r2 and alpha formulas a1, a2, each a
\* tuple <<a, b, c, d>> of sub-field values.
ShaderMux(r1, a1, r2, a2) ==
    BuildMux([a_rgb1 |-> r1[1], b_rgb1 |-> r1[2], c_rgb1 |-> r1[3],
              d_rgb1 |-> r1[4], a_a1 |-> a1[1], b_a1 |-> a1[2],
              c_a1 |-> a1[3], d_a1 |-> a1[4], a_rgb2 |-> r2[1],
              b_rgb2 |-> r2[2], c_rgb2 |-> r2[3], d_rgb2 |-> r2[4],
              a_a2 |-> a2[1], b_a2 |-> a2[2], c_a2 |-> a2[3],
              d_a2 |-> a2[4]])

\* Cycle-1 colour formulas: a full formula; c = '0' with d a vertex colour,
\* the constant 1, the constant 0 and the combined colour; all operands the
\* combined colour; c the combined alpha.
ShaderRgb1 ==
    { << 1, 8, 4, 7 >>, << 1, 3, 16, 4 >>, << 0, 0, 16, 6 >>,
      << 0, 0, 16, 7 >>, << 0, 0, 16, 0 >>, << 0, 0, 0, 0 >>,
      << 1, 8, 7, 7 >> }

\* Cycle-1 alpha formulas: a full formula; c = '0' with d the constant 1,
\* the shade alpha, the combined alpha and the constant 0.
ShaderAlpha1 ==
    { << 1, 7, 4, 7 >>, << 0, 0, 7, 6 >>, << 0, 0, 7, 4 >>,
      << 0, 0, 7, 0 >>, << 0, 0, 7, 7 >> }

\* Cycle-2 formulas <<colour, alpha>>: full formulas on the combined
\* values; the no-op cycle; c = '0' with d the constant 1.
ShaderCycle2 ==
    { << << 0, 8, 4, 7 >>, << 0, 7, 4, 7 >> >>,
      << << 8, 8, 16, 0 >>, << 7, 7, 7, 0 >> >>,
      << << 1, 3, 16, 6 >>, << 0, 0, 7, 6 >> >> }

ShaderMuxes ==
    { ShaderMux(r1, a1, c2[1], c2[2]) :
      r1 \in ShaderRgb1, a1 \in ShaderAlpha1, c2 \in ShaderCycle2 }

\* Second-cycle blenders: plain lerp, p the framebuffer colour, b the
\* framebuffer alpha alone.
ShaderBlenders2 == { << 0, 0, 0, 0 >>, << 1, 0, 0, 0 >>, << 0, 0, 2, 1 >> }

ShaderOtherModes ==
    { cyc \cup BlenderBits(b1, b2) :
      cyc \in { {}, {52} }, b1 \in SetupBlenders, b2 \in ShaderBlenders2 }

\* The texture descriptors handed to setup.
ShaderTex(crc, uv_map) ==
    [crc |-> crc, filter |-> "Linear", clampS |-> 0, wrapS |-> 1,
     mirrorS |-> FALSE, clampT |-> 3, wrapT |-> 8, mirrorT |-> FALSE,
     uv_map |-> uv_map]

\* The arguments of setup for decoded formulas f.
ShaderArgs(f, alpha, translucent) ==
    [combiner1 |-> f.combiner1, combiner2 |-> f.combiner2,
     blender1 |-> f.blender1, blender2 |-> f.blender2,
     tex0 |-> ShaderTex(43981, "UV0"), tex1 |-> ShaderTex(0, "UV1"),
     cull_backfacing |-> FALSE, is_translucent |-> translucent,
     show_alpha |-> alpha]

InitShader ==
    /\ Idle
    /\ pc = "inputs"
    /\ \E mux \in ShaderMuxes, om \in ShaderOtherModes, gm \in { {}, {16} },
          opt \in { << FALSE, FALSE >>, << TRUE, FALSE >>, << TRUE, TRUE >> } :
          arg = ShaderArgs(Formulas(mux, om, gm), opt[1], opt[2])
    /\ ret = None

\* Where setup goes after a step that left the shader sh.
NextStep(sh, step) == IF sh.err # NoError THEN "error" ELSE step

\* __init__, nodes.clear() and make_inputs
ShaderMakeInputs ==
    /\ pc = "inputs"
    /\ ret' = make_inputs(NewShader,
                          arg.combiner1 \o arg.combiner2
                             \o arg.blender1 \o arg.blender2)
    /\ pc' = "color1"
    /\ UNCHANGED << importVars, arg >>

\* make_combiners: the colour combiner of a cycle
ShaderColorCombiner ==
    /\ pc \in {"color1", "color2"}
    /\ ret' = make_color_combiner(
                  ret, pc,
                  SubSeq(IF pc = "color1" THEN arg.combiner1
                         ELSE arg.combiner2, 1, 4))
    /\ pc' = NextStep(ret', IF pc = "color1" THEN "alpha1" ELSE "alpha2")
    /\ UNCHANGED << importVars, arg >>

\* make_combiners: the alpha combiner of a cycle
ShaderAlphaCombiner ==
    /\ pc \in {"alpha1", "alpha2"}
    /\ ret' = make_alpha_combiner(
                  ret, pc,
                  SubSeq(IF pc = "alpha1" THEN arg.combiner1
                         ELSE arg.combiner2, 5, 8))
    /\ pc' = NextStep(ret', IF pc = "alpha1" /\ arg.combiner2 # None
                            THEN "color2" ELSE "blender1")
    /\ UNCHANGED << importVars, arg >>

\* make_blenders: one round of the loop; it ends after a blender that reads
\* the framebuffer colour.
ShaderBlender ==
    /\ pc \in {"blender1", "blender2"}
    /\ ret' = IF pc = "blender1"
              THEN BlenderRound(
                       make_simple_blender_mix_node(ret, pc, arg.blender1),
                       arg.blender1)
              ELSE BlenderRound(
                       make_simple_blender_mix_node(ret, pc, arg.blender2),
                       arg.blender2)
    /\ pc' = NextStep(ret',
                      IF pc = "blender1" /\ arg.blender2 # None
                            /\ "Framebuffer Color" \notin Operands(arg.blender1)
                      THEN "blender2" ELSE "output")
    /\ UNCHANGED << importVars, arg >>

\* make_output, then the material-level and custom properties
ShaderOutput ==
    /\ pc = "output"
    /\ ret' = [ret EXCEPT !.nodes = @ \o OutputNodes(ret.use_alpha),
                          !.mat = ShaderMaterial(ret, arg)]
    /\ pc' = "done"
    /\ UNCHANGED << importVars, arg >>

\* The texture descriptors create_material builds.
GlrTex(crc, uv_map) ==
    [crc |-> crc, filter |-> "Linear", wrapS |-> "Repeat", wrapT |-> "Clamp",
     uv_map |-> uv_map]

\* The same formulas and options as arguments of setup_n64_material of
\* import_glr.py.
GlrArgs(a) ==
    [combiner1 |-> a.combiner1, combiner2 |-> a.combiner2,
     blender1 |-> a.blender1, blender2 |-> a.blender2,
     tex0 |-> GlrTex(a.tex0.crc, "UV0"), tex1 |-> GlrTex(a.tex1.crc, "UV1"),
     cull_backface |-> a.cull_backfacing, show_alpha |-> a.show_alpha]

\* The material is set up by setup_n64_material of import_glr.py instead.
GlrSetup ==
    /\ pc = "inputs"
    /\ ret' = setup_n64_material(GlrArgs(arg))
    /\ pc' = "glr_done"
    /\ UNCHANGED << importVars, arg >>

NextShader ==
    \/ GlrSetup
    \/ ShaderMakeInputs
    \/ ShaderColorCombiner
    \/ ShaderAlphaCombiner
    \/ ShaderBlender
    \/ ShaderOutput

SpecShader == InitShader /\ [][NextShader]_vars

\* The condition the claim C14 gives for the simple lerp.
C14_Simple(bl) ==
    /\ bl[4] = "One Minus A"
    /\ bl[1] \notin {"Framebuffer Color", "Framebuffer Alpha"}
    /\ bl[3] \notin {"Framebuffer Color", "Framebuffer Alpha"}

\* A blender round of N64Shader for formula bl: a simple formula adds the
\* MIX node lerp(m, p, a) and makes its output the combined colour; any
\* other adds no node and leaves the combined colour as it was.
C14_ShaderRound(bl, step) ==
    IF C14_Simple(bl)
    THEN /\ Len(ret'.nodes) > Len(ret.nodes)
         /\ ret'.nodes[Len(ret.nodes) + 1]
               = [step |-> step, node |-> "ShaderNodeMix", op |-> "MIX",
                  fac |-> bl[2], in1 |-> bl[3], in2 |-> bl[1]]
         /\ ret'.vars["Combined Color"] = SocketOf(step \o ".MIX", "Result")
    ELSE /\ ret'.nodes = ret.nodes
         /\ ret'.vars["Combined Color"] = ret.vars["Combined Color"]

\* The same for a blender step of setup_n64_material: node is the lerp node
\* of the step, before and after the combined colour around it.
C14_GlrRound(bl, node, before, after, socket) ==
    IF C14_Simple(bl)
    THEN /\ node = [kind |-> "ShaderNodeMixRGB", fac |-> bl[2],
                    in1 |-> bl[3], in2 |-> bl[1]]
         /\ after = socket
    ELSE /\ node = None
         /\ after = before

\* C14: a blender formula (p, a, m, b) is realised as the single lerp
\* lerp(m, p, a) iff b is 'One Minus A' and neither p nor m is 'Framebuffer
\* Color' or 'Framebuffer Alpha'; otherwise no lerp node is created and the
\* step leaves 'Combined Color' unchanged.  In both shader builders.
C14_SimpleLerp ==
    /\ [][/\ (pc = "blender1" /\ pc' # pc)
                => C14_ShaderRound(arg.blender1, "blender1")
          /\ (pc = "blender2" /\ pc' # pc)
                => C14_ShaderRound(arg.blender2, "blender2")]_vars
    /\ [](pc = "glr_done" =>
            /\ C14_GlrRound(arg.blender1, ret.blnd1, ret.cc_comb,
                            ret.cc_blnd1, "node_blnd1")
            /\ arg.blender2 # None =>
                  C14_GlrRound(arg.blender2, ret.blnd2, ret.cc_blnd1,
                               ret.cc_blnd2, "node_blnd2"))

\* N64Shader finished a two-cycle material whose first blender is the fog
\* lerp and whose second blender, with b the framebuffer alpha, is not
\* simple: one MIX node, made by the first round.
C14_Witness ==
    /\ pc = "done"
    /\ arg.blender1 = << "Fog Color", "Fog Level", "Combined Color",
                         "One Minus A" >>
    /\ arg.blender2 # None
    /\ arg.blender2[4] = "Framebuffer Alpha"
    /\ \E n \in DOMAIN ret.nodes :
          /\ ret.nodes[n].step = "blender1"
          /\ ret.nodes[n].node = "ShaderNodeMix"
    /\ \A n \in DOMAIN ret.nodes : ret.nodes[n].step # "blender2"
    /\ ret.vars["Combined Color"] = SocketOf("blender1.MIX", "Result")

\* A present blender formula that is not realised as the simple lerp and has
\* the framebuffer colour or the framebuffer alpha among its operands.
C15_ReadsFramebuffer(bl) ==
    /\ bl # None
    /\ ~C14_Simple(bl)
    /\ Operands(bl) \cap {"Framebuffer Color", "Framebuffer Alpha"} # {}

C15_HasFramebufferColor(bl) ==
    /\ bl # None
    /\ "Framebuffer Color" \in Operands(bl)

C16_OpaqueUnlessOption ==
    /\ pc = "done" =>
          /\ ~arg.show_alpha => ret.mat.blend_method = "OPAQUE"
          /\ ret.mat.blend_method # "OPAQUE" =>
                /\ arg.show_alpha
                /\ ret.use_alpha
                /\ \E n \in DOMAIN ret.nodes :
                      ret.nodes[n].node = "ShaderNodeMixShader"
    /\ pc = "glr_done" =>
          /\ ~arg.show_alpha => ret.blend_method = "OPAQUE"
          /\ ret.blend_method # "OPAQUE" =>
                /\ arg.show_alpha
                /\ ret.mixtr
                /\ ret.output = "node_mixtr"
    /\ pc \in {"inputs", "color1", "alpha1", "color2", "alpha2", "blender1",
               "blender2", "output", "error"}
          => (ret = None \/ ret.mat = None)

\* N64Shader finished a material whose blender reads the framebuffer colour
\* with a combined alpha that is not the constant 1, the transparency option
\* off: the fallback was built and the mode is OPAQUE all the same.
C16_Witness ==
    /\ pc = "done"
    /\ ~arg.show_alpha
    /\ ret.use_alpha
    /\ \E n \in DOMAIN ret.nodes : ret.nodes[n].node = "ShaderNodeMixShader"
    /\ ret.mat.blend_method = "OPAQUE"

\* The nodes a step added to the shader.
C17_NewNodes == SubSeq(ret'.nodes, Len(ret.nodes) + 1, Len(ret'.nodes))

\* No subtract, multiply or add node among the nodes the step added.
C17_NoArithmetic ==
    \A n \in DOMAIN C17_NewNodes :
       "op" \notin DOMAIN C17_NewNodes[n]

\* The combined value named by var is d after the step: the socket d named
\* before it, or (for a colour) an RGB node supplying the constant d.
C17_BecomesD(var, d) ==
    /\ ret'.err = NoError
    /\ d \in DOMAIN ret.vars
    /\ \/ ret'.vars[var] = ret.vars[d]
       \/ /\ ~IsSocket(ret.vars[d])
          /\ \E n \in DOMAIN C17_NewNodes :
                /\ C17_NewNodes[n].node = "ShaderNodeRGB"
                /\ C17_NewNodes[n].value = ret.vars[d]
                /\ ret'.vars[var]
                      = SocketOf(C17_NewNodes[n].step \o ".RGB", "Color")

\* The combiner formula the step at pc realises.
C17_Formula ==
    IF pc = "color1" THEN SubSeq(arg.combiner1, 1, 4)
    ELSE IF pc = "alpha1" THEN SubSeq(arg.combiner1, 5, 8)
    ELSE IF pc = "color2" THEN SubSeq(arg.combiner2, 1, 4)
    ELSE SubSeq(arg.combiner2, 5, 8)

\* C17: a combiner formula (a, b, c, d), RGB or alpha, whose c is '0' is
\* realised as a pass-through of d: the combined value becomes d, whatever
\* a and b are, and no subtract, multiply or add step is emitted.
C17_PassThrough ==
    [][(/\ pc \in {"color1", "alpha1", "color2", "alpha2"}
        /\ pc' # pc
        /\ C17_Formula[3] = "0")
       => /\ C17_BecomesD(IF pc \in {"color1", "color2"}
                          THEN "Combined Color" ELSE "Combined Alpha",
                          C17_Formula[4])
          /\ C17_NoArithmetic]_vars

(***************************************************************************)
(* show_combiner_formula of utils.py called on operand names.               *)
(***************************************************************************)

\* Operand names handed to show_combiner_formula: the two constants and
\* three inputs.
FormulaNames ==
    {"0", "1", "Texel 0 Color", "Shade Color", "Primitive Alpha"}

InitFormula ==
    /\ Idle
    /\ pc = "formula"
    /\ arg \in FormulaNames \X FormulaNames \X FormulaNames \X FormulaNames
    /\ ret = None

\* show_combiner_formula(a, b, c, d): the strings sub and mul it builds on
\* the way and the string add it returns.
CallShowCombinerFormula ==
    /\ pc = "formula"
    /\ ret' = [sub |-> CombinerSub(arg[1], arg[2]),
               mul |-> CombinerMul(CombinerSub(arg[1], arg[2]), arg[3]),
               add |-> show_combiner_formula(arg[1], arg[2], arg[3], arg[4])]
    /\ pc' = "shown"
    /\ UNCHANGED << importVars, arg >>

SpecFormula == InitFormula /\ [][CallShowCombinerFormula]_vars

\* C18: the rendering of a combiner formula (a, b, c, d) applies x - 0 = x,
\* x * 0 = 0, x * 1 = x, 1 * y = y and x + 0 = x, and for a = '0' and
\* b = x with x # '0' the difference is rendered as '- x'.
C18_Identities ==
    pc = "shown" =>
       /\ arg[2] = "0" => ret.sub = arg[1]
       /\ arg[3] = "0" => ret.mul = "0"
       /\ arg[3] = "1" => ret.mul = ret.sub
       /\ ret.sub = "1" => ret.mul = arg[3]
       /\ arg[4] = "0" => ret.add = ret.mul
       /\ (arg[1] = "0" /\ arg[2] # "0") => ret.sub = "- " \o arg[2]

-----------------------------------------------------------------------------
(* An import into a session that already holds materials, as an earlier     *)
(* import leaves them in bpy.data.materials.                                *)

\* How many triangles the files of these imports declare at most.
MaxSessionTris == 2

\* The materials an earlier import of a file made of the first kind of
\* record, or of the first and the fourth, has left.
SessionMaterials ==
    { {},
      { MaterialName(MaterialArgs(Matinfo(StateA), 2, FALSE, TRUE)) },
      { MaterialName(MaterialArgs(Matinfo(StateA), 2, FALSE, TRUE)),
        MaterialName(MaterialArgs(
            Matinfo([StateA EXCEPT !.combiner_mux = {53, 6}]),
            2, FALSE, TRUE)) } }

InitSession ==
    /\ \E n \in 0..MaxSessionTris : fb \in ValidFiles(n)
    /\ pos = 0
    /\ filter_mode = TRUE
    /\ filter_list \in FilterLists
    /\ enable_fog = TRUE
    /\ show_alpha = TRUE
    /\ display_culling = FALSE
    /\ obj_name = None /\ num_tris = None /\ microcode = None
    /\ pc = "load_header"
    /\ err = NoError
    /\ i = 0
    /\ verts = << >> /\ faces = << >> /\ shade_colors = << >>
    /\ prim_colors = << >> /\ env_colors = << >> /\ blend_colors = << >>
    /\ fog_colors = << >> /\ fog_levels = << >> /\ uvs0 = << >> /\ uvs1 = << >>
    /\ matinfo_cache = << >> /\ face_materials = << >>
    /\ j = 0
    /\ mesh = None
    /\ bpy_materials \in SessionMaterials
    /\ setup_calls = << >>
    /\ ob = None
    /\ arg = None /\ ret = None

SpecSession == InitSession /\ [][Next]_vars

\* The pipeline create_material decodes for the n-th key of the table.
PipelineOf(n) ==
    MaterialArgs(matinfo_cache[n].key, microcode, display_culling, show_alpha)

\* How often the pipeline args was handed to setup_n64_material.
HandedOver(args) ==
    Cardinality({ c \in DOMAIN setup_calls : setup_calls[c] = args })

\* C21 as stated: the pipeline of each unique key is handed to
\* setup_n64_material exactly once during one decode, for any triangle
\* stream and any set of materials that exist before.
C21_Original ==
    pc = "done" =>
       /\ Len(setup_calls) = Len(matinfo_cache)
       /\ \A n \in DOMAIN matinfo_cache : HandedOver(PipelineOf(n)) = 1

\* The materials that existed before the decode: those no call of this
\* decode has made.
PreExisting ==
    bpy_materials \ { MaterialName(setup_calls[c]) : c \in DOMAIN setup_calls }

\* C21: during one decode every unique key gets one material, and the
\* pipeline of a key is handed to setup_n64_material at most once: exactly
\* once for each distinct pipeline among the keys whose material did not
\* exist before the decode, and never for a pipeline whose material exists
\* already (from an earlier import, or from an earlier key of this decode
\* with the same pipeline).
C21_OncePerNewPipeline ==
    pc \in {"materials", "done"} =>
       /\ Len(mesh.materials) = j
       /\ pc = "done" => j = Len(matinfo_cache)
       /\ \A n \in 1..j :
             /\ mesh.materials[n] = MaterialName(PipelineOf(n))
             /\ HandedOver(PipelineOf(n)) =
                   (IF MaterialName(PipelineOf(n)) \in PreExisting
                    THEN 0 ELSE 1)
       /\ \A c \in DOMAIN setup_calls :
             \E n \in 1..j : setup_calls[c] = PipelineOf(n)
       /\ Len(setup_calls)
             = Cardinality({ PipelineOf(n) : n \in 1..j }
                           \ { PipelineOf(n) : n \in
                               { m \in 1..j :
                                 MaterialName(PipelineOf(m)) \in PreExisting } })

\* A decode of two keys finished: the material of the first existed before
\* and was not set up again, the second was set up once.
C21_Witness ==
    /\ pc = "done"
    /\ Len(matinfo_cache) = 2
    /\ MaterialName(PipelineOf(1)) \in PreExisting
    /\ setup_calls = << PipelineOf(2) >>
    /\ Len(mesh.materials) = 2

\* C22 as stated: every key has exactly one decoded pipeline, and two
\* different keys never resolve to the same pipeline nor to the same
\* material.
C22_Original ==
    pc = "done" =>
       /\ Len(mesh.materials) = Len(matinfo_cache)
       /\ \A m \in DOMAIN matinfo_cache : \A n \in DOMAIN matinfo_cache :
             m # n => /\ PipelineOf(m) # PipelineOf(n)
                      /\ mesh.materials[m] # mesh.materials[n]

\* Keys m and n differ at most in geometry-mode bits that are neither the
\* fog bit nor, with the culling option on, the culling bit of the microcode.
SamePipelineFields(m, n) ==
    /\ \A f \in (1..9) \ {3} : matinfo_cache[m].key[f] = matinfo_cache[n].key[f]
    /\ fog_bit(matinfo_cache[m].key[3]) = fog_bit(matinfo_cache[n].key[3])
    /\ display_culling =>
          (get_backface_culling(matinfo_cache[m].key[3], microcode)
             = get_backface_culling(matinfo_cache[n].key[3], microcode))

\* C22: the mapping from key to decoded pipeline is a function that is not
\* one-to-one: every key has exactly one decoded pipeline and one material;
\* two different keys that differ only in geometry-mode bits other than the
\* fog bit and the effective culling bit resolve to the same pipeline; and
\* two keys get the same material exactly when their pipelines are the same.
C22_PipelineOfKey ==
    pc = "done" =>
       /\ Len(mesh.materials) = Len(matinfo_cache)
       /\ \A m \in DOMAIN matinfo_cache : \A n \in DOMAIN matinfo_cache :
             /\ SamePipelineFields(m, n) => PipelineOf(m) = PipelineOf(n)
             /\ (mesh.materials[m] = mesh.materials[n])
                   <=> (PipelineOf(m) = PipelineOf(n))

\* Two different keys of one decode resolved to one pipeline and one
\* material, and a third key to another.
C22_Witness ==
    /\ pc = "done"
    /\ Len(matinfo_cache) = 3
    /\ \E m \in DOMAIN matinfo_cache : \E n \in DOMAIN matinfo_cache :
          /\ matinfo_cache[m].key # matinfo_cache[n].key
          /\ PipelineOf(m) = PipelineOf(n)
          /\ mesh.materials[m] = mesh.materials[n]
    /\ \E m \in DOMAIN matinfo_cache : \E n \in DOMAIN matinfo_cache :
          mesh.materials[m] # mesh.materials[n]

-----------------------------------------------------------------------------
(* import_glr.py: parse_filter_list.  A string is the sequence of its       *)
(* characters.                                                              *)

\* The value of a hexadecimal digit.
HexDigit ==
    ("0" :> 0) @@ ("1" :> 1) @@ ("2" :> 2) @@ ("3" :> 3) @@ ("4" :> 4)
    @@ ("5" :> 5) @@ ("6" :> 6) @@ ("7" :> 7) @@ ("8" :> 8) @@ ("9" :> 9)
    @@ ("a" :> 10) @@ ("b" :> 11) @@ ("c" :> 12) @@ ("d" :> 13)
    @@ ("e" :> 14) @@ ("f" :> 15) @@ ("A" :> 10) @@ ("B" :> 11)
    @@ ("C" :> 12) @@ ("D" :> 13) @@ ("E" :> 14) @@ ("F" :> 15)

\* filter_str.split(sep)
RECURSIVE Split(_, _)
Split(s, sep) ==
    IF \A n \in DOMAIN s : s[n] # sep THEN << s >>
    ELSE LET k == CHOOSE n \in DOMAIN s :
                     s[n] = sep /\ \A m \in 1..(n - 1) : s[m] # sep
         IN  << SubSeq(s, 1, k - 1) >> \o Split(SubSeq(s, k + 1, Len(s)), sep)

\* int() ignores white space around the number.
RECURSIVE Strip(_)
Strip(s) ==
    IF s = << >> THEN s
    ELSE IF Head(s) = " " THEN Strip(Tail(s))
    ELSE IF s[Len(s)] = " " THEN Strip(SubSeq(s, 1, Len(s) - 1))
    ELSE s

\* The digits of a number: hexadecimal digits, single underscores allowed
\* between two digits (and, when lead, also before the first digit).
DigitsOk(s, lead) ==
    /\ s # << >>
    /\ \A n \in DOMAIN s : s[n] \in DOMAIN HexDigit \cup {"_"}
    /\ s[Len(s)] # "_"
    /\ lead \/ s[1] # "_"
    /\ \A n \in 1..(Len(s) - 1) : ~(s[n] = "_" /\ s[n + 1] = "_")

\* The number the digits stand for in base 16.
RECURSIVE DigitsValue(_)
DigitsValue(s) ==
    IF s = << >> THEN 0
    ELSE IF s[Len(s)] = "_" THEN DigitsValue(SubSeq(s, 1, Len(s) - 1))
    ELSE 16 * DigitsValue(SubSeq(s, 1, Len(s) - 1)) + HexDigit[s[Len(s)]]

\* The number after the sign: an optional 0x or 0X, then the digits.
Unsigned(s) ==
    IF Len(s) >= 2 /\ s[1] = "0" /\ s[2] \in {"x", "X"}
    THEN [ok |-> DigitsOk(SubSeq(s, 3, Len(s)), TRUE),
          digits |-> SubSeq(s, 3, Len(s))]
    ELSE [ok |-> DigitsOk(s, FALSE), digits |-> s]

\* Mutation of Int16: a string that is no number counts as 0.
Int16_Lenient(x) ==
    LET s == Strip(x)
        neg == s # << >> /\ s[1] = "-"
        u == Unsigned(IF s # << >> /\ s[1] \in {"+", "-"} THEN Tail(s) ELSE s)
    IN  IF ~u.ok THEN [ok |-> TRUE, value |-> 0]
        ELSE [ok |-> TRUE,
              value |-> IF neg THEN 0 - DigitsValue(u.digits)
                        ELSE DigitsValue(u.digits)]

\* int(x, 16): ok is FALSE when it raises ValueError.
Int16(x) ==
    LET s == Strip(x)
        neg == s # << >> /\ s[1] = "-"
        u == Unsigned(IF s # << >> /\ s[1] \in {"+", "-"} THEN Tail(s) ELSE s)
    IN  IF ~u.ok THEN [ok |-> FALSE, value |-> 0]
        ELSE [ok |-> TRUE,
              value |-> IF neg THEN 0 - DigitsValue(u.digits)
                        ELSE DigitsValue(u.digits)]

NO_TEXTURE == << "N", "O", "_", "T", "E", "X", "T", "U", "R", "E" >>

\* x = 0 if x == 'NO_TEXTURE' else int(x, 16)
FilterValue(x) ==
    IF x = NO_TEXTURE THEN [ok |-> TRUE, value |-> 0] ELSE Int16(x)

\* parse_filter_list(filter_str): the set returned, or the ValueError raised
\* at the first token that is no value.
parse_filter_list(filter_str) ==
    IF filter_str = << >> THEN [err |-> NoError, filter_list |-> {}]
    ELSE LET tokens == Split(filter_str, ",")
         IN  IF \E n \in DOMAIN tokens : ~FilterValue(tokens[n]).ok
             THEN [err |-> "ValueError", filter_list |-> None]
             ELSE [err |-> NoError,
                   filter_list |-> { FilterValue(tokens[n]).value :
                                     n \in DOMAIN tokens }]

-----------------------------------------------------------------------------
(* import_glr.py: load, the entry point of the import, for one selected     *)
(* file: the options are parsed, everything is deselected, the file is      *)
(* imported and the object is linked to the scene.                          *)

\* How many tokens a checked filter-list string holds at most.
MaxTokens == 2

\* Tokens of filter-list strings, each with whether it is 'NO_TEXTURE' or a
\* hexadecimal number and the value it stands for: NO_TEXTURE, ABCD, abcd,
\* 1234, 0, the number with a 0x, with a blank before it, with a sign and
\* with an underscore; the empty token, xyz, 12G, no_texture, _1 and 0x.
FilterTokens ==
    { [text |-> NO_TEXTURE, valid |-> TRUE, value |-> 0],
      [text |-> << "A", "B", "C", "D" >>, valid |-> TRUE, value |-> 43981],
      [text |-> << "a", "b", "c", "d" >>, valid |-> TRUE, value |-> 43981],
      [text |-> << "1", "2", "3", "4" >>, valid |-> TRUE, value |-> 4660],
      [text |-> << "0" >>, valid |-> TRUE, value |-> 0],
      [text |-> << "0", "x", "1", "0" >>, valid |-> TRUE, value |-> 16],
      [text |-> << " ", "1", "F" >>, valid |-> TRUE, value |-> 31],
      [text |-> << "-", "1" >>, valid |-> TRUE, value |-> -1],
      [text |-> << "1", "_", "0" >>, valid |-> TRUE, value |-> 16],
      [text |-> << >>, valid |-> FALSE, value |-> 0],
      [text |-> << "x", "y", "z" >>, valid |-> FALSE, value |-> 0],
      [text |-> << "1", "2", "G" >>, valid |-> FALSE, value |-> 0],
      [text |-> << "n", "o", "_", "t", "e", "x", "t", "u", "r", "e" >>,
       valid |-> FALSE, value |-> 0],
      [text |-> << "_", "1" >>, valid |-> FALSE, value |-> 0],
      [text |-> << "0", "x" >>, valid |-> FALSE, value |-> 0] }

\* ','.join(texts)
RECURSIVE Join(_)
Join(texts) ==
    IF Len(texts) = 1 THEN texts[1]
    ELSE texts[1] \o << "," >> \o Join(Tail(texts))

\* The lists of one to n tokens.
TokenLists(n) == UNION { [1..m -> FilterTokens] : m \in 1..n }

\* keywords of load: the selected file name, the filter-list string (with
\* the tokens it was written from) and the filter mode.  The empty string
\* is the string of no token.
Keywords ==
    { [file |-> f, tokens |-> ts, filter_list |-> s, filter_mode |-> m] :
      f \in {"", "scene.glr"},
      ts \in {<< >>}, s \in {<< >>}, m \in BOOLEAN }
    \cup
    { [file |-> "scene.glr", tokens |-> ts,
       filter_list |-> Join([n \in DOMAIN ts |-> ts[n].text]),
       filter_mode |-> m] :
      ts \in { l \in TokenLists(MaxTokens) :
                Join([n \in DOMAIN l |-> l[n].text]) # << >> },
      m \in BOOLEAN }

\* The call load(context, **keywords): nothing is parsed, read or changed
\* yet.  ret is the scene: whether everything was deselected, and the
\* objects linked to it.
InitLoad ==
    /\ \E n \in 0..1 : fb \in ValidFiles(n)
    /\ pos = 0
    /\ arg \in Keywords
    /\ filter_mode = None /\ filter_list = None
    /\ enable_fog = TRUE /\ show_alpha = TRUE /\ display_culling = FALSE
    /\ obj_name = None /\ num_tris = None /\ microcode = None
    /\ pc = "load"
    /\ err = NoError
    /\ i = 0
    /\ verts = << >> /\ faces = << >> /\ shade_colors = << >>
    /\ prim_colors = << >> /\ env_colors = << >> /\ blend_colors = << >>
    /\ fog_colors = << >> /\ fog_levels = << >> /\ uvs0 = << >> /\ uvs1 = << >>
    /\ matinfo_cache = << >> /\ face_materials = << >>
    /\ j = 0
    /\ mesh = None
    /\ bpy_materials = {}
    /\ setup_calls = << >>
    /\ ob = None
    /\ ret = [deselected |-> FALSE, objects |-> << >>]

\* load up to triangle_options: the file name is checked and the filter
\* list parsed.
LoadOptions ==
    /\ pc = "load"
    /\ IF arg.file = ""
       THEN /\ err' = "No .glr files have been selected for import!"
            /\ pc' = "error"
            /\ UNCHANGED << filter_list, filter_mode >>
       ELSE IF parse_filter_list(arg.filter_list).err # NoError
       THEN /\ err' = parse_filter_list(arg.filter_list).err
            /\ pc' = "error"
            /\ UNCHANGED << filter_list, filter_mode >>
       ELSE /\ filter_list' = parse_filter_list(arg.filter_list).filter_list
            /\ filter_mode' = arg.filter_mode
            /\ pc' = "deselect"
            /\ UNCHANGED err
    /\ UNCHANGED << fb, pos, enable_fog, show_alpha, display_culling, hdrVars,
                    i, bufVars, outVars, callVars >>

\* bpy.ops.object.select_all(action='DESELECT'), then load_glr opens the
\* file and constructs the importer.
Deselect ==
    /\ pc = "deselect"
    /\ ret' = [ret EXCEPT !.deselected = TRUE]
    /\ pc' = "load_header"
    /\ UNCHANGED << importVars, arg >>

\* context.scene.collection.objects.link(ob)
LinkObject ==
    /\ pc = "done"
    /\ ret' = [ret EXCEPT !.objects = Append(@, ob)]
    /\ pc' = "finished"
    /\ UNCHANGED << importVars, arg >>

NextLoad == LoadOptions \/ Deselect \/ Next \/ LinkObject

SpecLoad == InitLoad /\ [][NextLoad]_vars

\* Nothing of the file was read and nothing in the session was changed.
Untouched ==
    /\ pos = 0
    /\ ret = [deselected |-> FALSE, objects |-> << >>]
    /\ mesh = None /\ ob = None /\ bpy_materials = {} /\ setup_calls = << >>

-----------------------------------------------------------------------------
(* Properties of the finished mesh and of the buffers it is made from.      *)

\* Corner c of the f-th surviving record has a non-zero fog level: the fog
\* bit of its triangle is set and its shade alpha is not 0.
HasFog(sv, f, c) ==
    /\ 16 \in fb.recs[sv[f]].state.geometry_mode
    /\ fb.recs[sv[f]].verts[c][7] # 0

\* C24: the per-vertex 'Fog Level' attribute is put on the mesh iff the fog
\* option is enabled and at least one emitted vertex has a non-zero fog
\* level; it then holds one value per emitted vertex, in vertex order.
C24_FogAttribute ==
    /\ pc = "materials" => mesh.fog_level = None
    /\ pc = "done" =>
          /\ (mesh.fog_level # None)
                <=> (enable_fog /\ \E f \in DOMAIN Surviving(i) :
                                      \E c \in 1..3 : HasFog(Surviving(i), f, c))
          /\ mesh.fog_level # None =>
                /\ Len(mesh.fog_level) = Len(mesh.verts)
                /\ \A f \in DOMAIN Surviving(i) : \A c \in 1..3 :
                      mesh.fog_level[3 * (f - 1) + c] =
                         IF HasFog(Surviving(i), f, c)
                         THEN fb.recs[Surviving(i)[f]].verts[c][7] ELSE 0

\* With the fog option on, a mesh of an unfogged and a fogged triangle whose
\* first vertex has fog level 0 got the attribute, six values long.
C24_Witness ==
    /\ pc = "done"
    /\ enable_fog
    /\ Len(mesh.verts) = 6
    /\ mesh.fog_level = << 0, 0, 0, 0, 9, 1 >>

-----------------------------------------------------------------------------
(* decode_combiner_mode and decode_blender_mode called on their own.        *)

\* Other modes: every setting of the 16 blender bits 16..31, among other
\* bits that are all clear or all set.
DecoderOtherModes ==
    { bl \cup bg : bl \in SUBSET (16..31),
                   bg \in { {}, (0..15) \cup (32..63) } }

\* A mux that varies over the sub-field assignments with other mode 0, or an
\* other mode that varies with mux 0.
InitDecoders ==
    /\ Idle
    /\ pc = "call"
    /\ \/ \E fv \in FieldValues(MaxSetFields) :
             arg = [fields |-> fv, mux |-> BuildMux(fv), other_mode |-> {}]
       \/ \E om \in DecoderOtherModes :
             arg = [fields |-> [f \in FieldNames |-> 0], mux |-> {},
                    other_mode |-> om]
    /\ ret = None

CallDecodeBlender ==
    /\ pc = "call"
    /\ ret' = decode_blender_mode(arg.other_mode)
    /\ pc' = "returned_blender"
    /\ UNCHANGED << importVars, arg >>

SpecDecoders == InitDecoders /\ [][CallDecodeCombiner \/ CallDecodeBlender]_vars

\* No operand of the formula is the error of a failed lookup.
NoLookupError(formula) ==
    \A n \in DOMAIN formula : formula[n] # "KeyError"

\* An RGB sub-field value with no table entry decodes to the constant '0'.
DefaultsToZero(formula, a, b, c) ==
    /\ a \in 8..15 => formula[1] = "0"
    /\ b \in 8..15 => formula[2] = "0"
    /\ c \in 16..31 => formula[3] = "0"

\* C25: decode_combiner_mode and decode_blender_mode are total: an RGB
\* sub-field value with no table entry (a or b in 8..15, c in 16..31)
\* decodes to the constant '0', no alpha-combiner or blender sub-field value
\* misses its table, and neither decoder raises a lookup error.
C25_DecodersTotal ==
    /\ DOMAIN ALPHA_ABD_TABLE = 0..7 /\ DOMAIN ALPHA_C_TABLE = 0..7
    /\ DOMAIN BLENDER_PM_TABLE = 0..3 /\ DOMAIN BLENDER_A_TABLE = 0..3
    /\ DOMAIN BLENDER_B_TABLE = 0..3
    /\ pc = "returned" =>
          /\ Len(ret[1]) = 8 /\ Len(ret[2]) = 8
          /\ NoLookupError(ret[1]) /\ NoLookupError(ret[2])
          /\ DefaultsToZero(ret[1], arg.fields.a_rgb1, arg.fields.b_rgb1,
                            arg.fields.c_rgb1)
          /\ DefaultsToZero(ret[2], arg.fields.a_rgb2, arg.fields.b_rgb2,
                            arg.fields.c_rgb2)
    /\ pc = "returned_blender" =>
          /\ Len(ret[1]) = 4 /\ Len(ret[2]) = 4
          /\ NoLookupError(ret[1]) /\ NoLookupError(ret[2])
          /\ \A f \in DOMAIN BlenderFields(arg.other_mode) :
                BlenderFields(arg.other_mode)[f] \in 0..3

\* c_rgb1 = 31, a value with no table entry among sub-fields that are all
\* ones, decoded to '0' with no error.
C25_Witness ==
    /\ pc = "returned"
    /\ arg.fields.c_rgb1 = 31
    /\ arg.fields.a_rgb1 = 15
    /\ arg.fields.b_rgb2 = 15
    /\ arg.fields.a_a1 = 7
    /\ ret[1][3] = "0"
    /\ ret[1][1] = "0"
    /\ ret[2][2] = "0"
    /\ NoLookupError(ret[1])

\* The f-th face holds what record sv[f] holds at its own place in the
\* file: the three vertices of its first 132 bytes and the colours and the
\* key of the 132 bytes after them.
FaceFromItsRecord(sv, f) ==
    /\ \A c \in 1..3 :
          /\ verts[3 * (f - 1) + c]
                = Yup2Zup(VertAt(fb, 36 + 264 * (sv[f] - 1) + 44 * (c - 1))[1],
                          VertAt(fb, 36 + 264 * (sv[f] - 1) + 44 * (c - 1))[2],
                          VertAt(fb, 36 + 264 * (sv[f] - 1) + 44 * (c - 1))[3])
          /\ verts[3 * (f - 1) + c]
                = << fb.recs[sv[f]].verts[c][1], 0 - fb.recs[sv[f]].verts[c][3],
                     fb.recs[sv[f]].verts[c][2] >>
          /\ \A n \in 1..4 :
                /\ shade_colors[12 * (f - 1) + 4 * (c - 1) + n]
                      = fb.recs[sv[f]].verts[c][3 + n]
                /\ prim_colors[12 * (f - 1) + 4 * (c - 1) + n]
                      = fb.recs[sv[f]].state.prim[n]
    /\ matinfo_cache[face_materials[f] + 1].key
          = Matinfo(StateAt(fb, 36 + 264 * (sv[f] - 1) + 132))
    /\ StateAt(fb, 36 + 264 * (sv[f] - 1) + 132) = fb.recs[sv[f]].state

\* C26: every triangle record, kept or dropped by the CRC filter, takes
\* 3 x 44 + 132 = 264 bytes of the stream, vertices before state, so record
\* k starts 36 + 264 * k bytes into the file, and what is decoded for a
\* surviving triangle is the content of its own record whatever happened to
\* the triangles before it.
C26_RecordSize ==
    /\ [](pc = "do_tris" => pos = 36 + 264 * i)
    /\ [](pc \in {"materials", "done"} => pos = 36 + 264 * num_tris)
    /\ [](InBody =>
            /\ Len(faces) = Len(Surviving(i))
            /\ \A f \in DOMAIN faces : FaceFromItsRecord(Surviving(i), f))
    /\ [][(pc = "do_tris" /\ i' = i + 1) => pos' = pos + 264]_vars

\* The first of three records was dropped and the two after it kept: the
\* whole file was consumed and the second face is the third record.
C26_Witness ==
    /\ pc = "done"
    /\ i = 3
    /\ Dropped(1) /\ ~Dropped(2) /\ ~Dropped(3)
    /\ fb.recs[2] # fb.recs[3]
    /\ pos = 828
    /\ Len(faces) = 2
    /\ FaceFromItsRecord(Surviving(i), 2)

\* C27: after every processed record the output buffers are parallel: three
\* vertices per face, the k-th face (counted from 0) is (3k, 3k+1, 3k+2) so
\* no vertex belongs to two faces, one material index per face, four values
\* per vertex in each of the five colour layers and two per vertex in each
\* UV layer.
C27_ParallelBuffers ==
    InBody =>
       /\ Len(verts) = 3 * Len(faces)
       /\ \A f \in DOMAIN faces :
             faces[f] = << 3 * (f - 1), 3 * (f - 1) + 1, 3 * (f - 1) + 2 >>
       /\ \A f \in DOMAIN faces : \A g \in DOMAIN faces :
             f # g => \A c \in 1..3 : \A d \in 1..3 : faces[f][c] # faces[g][d]
       /\ \A f \in DOMAIN faces : \A c \in 1..3 :
             faces[f][c] \in 0..(Len(verts) - 1)
       /\ Len(face_materials) = Len(faces)
       /\ Len(shade_colors) = 4 * Len(verts)
       /\ Len(prim_colors) = 4 * Len(verts)
       /\ Len(env_colors) = 4 * Len(verts)
       /\ Len(blend_colors) = 4 * Len(verts)
       /\ Len(fog_colors) = 4 * Len(verts)
       /\ Len(uvs0) = 2 * Len(verts)
       /\ Len(uvs1) = 2 * Len(verts)
       /\ Len(fog_levels) = Len(verts)

\* Two triangles with the same three vertices were emitted in the middle of
\* a decode: six vertices, two disjoint faces.
C27_Witness ==
    /\ pc = "do_tris"
    /\ i = 2
    /\ num_tris = 3
    /\ fb.recs[1].verts = fb.recs[2].verts
    /\ Len(verts) = 6
    /\ faces = << << 0, 1, 2 >>, << 3, 4, 5 >> >>
    /\ Len(shade_colors) = 24
    /\ Len(uvs0) = 12

-----------------------------------------------------------------------------
(* create_material called on keys and microcodes that decide the culling.   *)

\* The largest microcode id of the checked calls.
MaxMicrocode == 22

\* Geometry modes over the two culling bits 0x400 and 0x2000, their
\* neighbours 0x200 and 0x1000 and the fog bit.
CullingGeometryModes == SUBSET {9, 10, 12, 13, 16}

InitCulling ==
    /\ Idle
    /\ pc = "call"
    /\ \E gm \in CullingGeometryModes, ucode \in 0..MaxMicrocode,
          culling \in BOOLEAN :
          arg = [matinfo |-> << {}, {}, gm, 43981, 0, 2, 0, 1, 0 >>,
                 microcode |-> ucode, display_culling |-> culling,
                 show_alpha |-> TRUE]
    /\ ret = None

SpecCulling == InitCulling /\ [][CallCreateMaterial]_vars

\* C28: the backface-culling flag of the material is true iff the culling
\* option is enabled and the geometry mode has the culling bit set, the bit
\* being 0x400 (bit 10) for microcodes 2, 5, 7, 13, 17, 18 and 21 and 0x2000
\* (bit 13) for every other microcode.
C28_CullingFlag ==
    pc = "returned" =>
       (ret.cull_backface
          <=> /\ arg.display_culling
              /\ IF arg.microcode \in {2, 5, 7, 13, 17, 18, 21}
                 THEN 10 \in arg.matinfo[3]
                 ELSE 13 \in arg.matinfo[3])

\* Microcode 21 with bit 0x400 set and bit 0x2000 clear culls, with the
\* option on.
C28_Witness ==
    /\ pc = "returned"
    /\ arg.microcode = 21
    /\ arg.display_culling
    /\ 10 \in arg.matinfo[3]
    /\ 13 \notin arg.matinfo[3]
    /\ ret.cull_backface

-----------------------------------------------------------------------------
(* The material indices of the faces against the key table.                 *)

\* The records among 1..n that are not dropped, as a set.
Kept(n) == { k \in 1..n : ~Dropped(k) }

\* Every index is one of the key table, and every key of the table is the
\* key of a face.
IndicesInRange ==
    /\ \A f \in DOMAIN face_materials :
          face_materials[f] \in 0..(Len(matinfo_cache) - 1)
    /\ \A n \in DOMAIN matinfo_cache :
          \E f \in DOMAIN face_materials : face_materials[f] = n - 1
    /\ DictKeys(matinfo_cache)
          = { Matinfo(fb.recs[k].state) : k \in Kept(i) }

\* The step that drops a record leaves the key table as it was.
DropAddsNoKey ==
    (pc = "do_tris" /\ i' = i + 1 /\ Dropped(i + 1))
       => matinfo_cache' = matinfo_cache

\* The mesh has one material slot per key, and the indices stored on its
\* polygons are slots of the mesh.
SlotsInRange ==
    pc = "done" =>
       /\ Len(mesh.materials) = Len(matinfo_cache)
       /\ Len(mesh.material_index) = Len(mesh.faces)
       /\ \A f \in DOMAIN mesh.material_index :
             mesh.material_index[f] \in 0..(Len(mesh.materials) - 1)

\* C29: every material index of a face is in 0..(number of keys - 1), every
\* key of the material table is referenced by at least one emitted face, and
\* a dropped triangle never adds a key.
C29_IndicesInRange ==
    /\ [](InBody => IndicesInRange)
    /\ [](SlotsInRange)
    /\ [][DropAddsNoKey]_vars

\* A record was dropped whose key is the key of no face, next to kept records
\* of two keys.
C29_Witness ==
    /\ pc = "done"
    /\ Len(matinfo_cache) = 2
    /\ \E k \in 1..i :
          /\ Dropped(k)
          /\ Matinfo(fb.recs[k].state) \notin DictKeys(matinfo_cache)

====
